---- MODULE Spec2Model ----
(***************************************************************************)
(* The replication agent of agentic-peer-review: runEvalAgent              *)
(* (src/lib/eval/agent.ts) with its generator getCodeSuggestion, its judge *)
(* assessOutputSufficiency and the executor runInE2b.                      *)
(*                                                                         *)
(* A JavaScript string is a sequence of characters; a character is an      *)
(* opaque symbol (a TLA+ string), so a literal of the source is a          *)
(* one-symbol sequence and concatenation is \o.  null/undefined/absent is  *)
(* the empty sequence Null and a present value v is Some(v) = <<v>>.       *)
(* A number that need not be an integer (maxIterations) is held as an      *)
(* integer count of 1/Den units.                                           *)
(***************************************************************************)
EXTENDS Integers, Sequences, FiniteSets, TLC

\* ---------------------------------------------------------------- bounds
MaxIter == 3         \* largest maxIterations the caller passes
Den == 2             \* maxIterations is a multiple of 1/Den
SnippetChars == 2    \* the 2_000-character budget of agent.ts:538, scaled
PaperChars == 3          \* MAX_PAPER_CHARS, scaled
JudgeContextChars == 2   \* MAX_CONTEXT_CHARS_FOR_JUDGE, scaled
JudgeOutputChars == 1    \* MAX_OUTPUT_CHARS_FOR_JUDGE, scaled
MaxTextLen == 5          \* longest text handed to a truncation
MaxLangLen == 3          \* longest language string tried
MaxCalls == 4            \* calls of getSql / createAdminClient in one process
MaxRequests == 2         \* requests served concurrently
MaxTurns == 3            \* requests served one after the other

\* ------------------------------------------------------ program constants
MaxListItems == 20   \* .slice(0, 20)

\* ------------------------------------------------------------- optionals
Null == <<>>
Some(v) == <<v>>
IsNull(o) == o = <<>>
Val(o) == o[1]

\* --------------------------------------------------------------- strings
Min(a, b) == IF a <= b THEN a ELSE b

Whitespace == {" ", "\n"}

RECURSIVE trimStart(_)
trimStart(s) ==
  IF Len(s) > 0 /\ Head(s) \in Whitespace THEN trimStart(Tail(s)) ELSE s

RECURSIVE trimEnd(_)
trimEnd(s) ==
  IF Len(s) > 0 /\ s[Len(s)] \in Whitespace
    THEN trimEnd(SubSeq(s, 1, Len(s) - 1))
    ELSE s

trim(s) == trimEnd(trimStart(s))

slice(s, n) == SubSeq(s, 1, Min(n, Len(s)))

RECURSIVE join(_, _)
join(items, sep) ==
  IF Len(items) = 0 THEN <<>>
  ELSE IF Len(items) = 1 THEN items[1]
  ELSE items[1] \o sep \o join(Tail(items), sep)

RECURSIVE filterNonEmpty(_)
filterNonEmpty(items) ==
  IF Len(items) = 0 THEN <<>>
  ELSE IF Len(Head(items)) = 0 THEN filterNonEmpty(Tail(items))
  ELSE <<Head(items)>> \o filterNonEmpty(Tail(items))

\* a || b on strings: the empty string is falsy
OrElse(s, fallback) == IF Len(s) = 0 THEN fallback ELSE s

toLogSnippet(value, maxChars) ==
  IF Len(value) <= maxChars THEN value
  ELSE slice(value, maxChars)
         \o <<"\n...[truncated " \o ToString(Len(value) - maxChars) \o " chars]">>

truncateText(value, maxChars) ==
  IF Len(value) <= maxChars THEN value
  ELSE slice(value, maxChars)
         \o <<"\n...[truncated " \o ToString(Len(value) - maxChars) \o " chars]">>

\* the paper snippet of buildUserPrompt
paperContext(paperText) ==
  IF Len(paperText) > PaperChars
    THEN slice(paperText, PaperChars) \o <<"\n...[truncated]">>
    ELSE paperText

\* s occurs in t as a contiguous run of characters
Contains(t, s) ==
  \E i \in 0..(Len(t) - Len(s)) : SubSeq(t, i + 1, i + Len(s)) = s

\* ------------------------------------------------------------- executor
\* RunInE2bResult
Success(output) == [success |-> TRUE, output |-> output]
Failure(error) == [success |-> FALSE, error |-> error]

Lower(c) == CASE c = "P" -> "p" [] c = "Y" -> "y" [] c = "R" -> "r" [] OTHER -> c
toLowerCase(s) == [i \in 1..Len(s) |-> Lower(s[i])]
startsWith(s, prefix) ==
  Len(s) >= Len(prefix) /\ SubSeq(s, 1, Len(prefix)) = prefix

python == <<"p", "y", "t", "h", "o", "n">>
python3 == python \o <<"3">>

normalizedLanguage_CaseSensitive(language) ==
  LET raw == IF IsNull(language) THEN python ELSE OrElse(Val(language), python)
  IN IF startsWith(raw, <<"p", "y">>) THEN python ELSE toLowerCase(raw)
\* language is the optional second argument of runInE2b
normalizedLanguage(language) ==
  LET raw == toLowerCase(IF IsNull(language) THEN python
                         ELSE OrElse(Val(language), python))
  IN IF startsWith(raw, <<"p", "y">>) THEN python ELSE raw

\* what Sandbox.create() / sandbox.runCode() do for one call
\* Sandbox.create() rejects / sandbox.runCode() rejects / execution.error /
\* a finished execution
SandboxCreateThrows(message) == [kind |-> "createThrows", message |-> message]
SandboxThrows(message) == [kind |-> "throws", message |-> message]
SandboxFault(name, value, traceback) ==
  [kind |-> "fault", name |-> name, value |-> value, traceback |-> traceback]
SandboxDone(text, stdout, stderr) ==
  [kind |-> "done", text |-> text, stdout |-> stdout, stderr |-> stderr]
\* execution.error together with a text result and logs
SandboxFaultWithOutput(name, value, traceback, text, stdout, stderr) ==
  [kind |-> "fault", name |-> name, value |-> value, traceback |-> traceback,
   text |-> text, stdout |-> stdout, stderr |-> stderr]

executionOutput_NoPlaceholder(execution) ==
  LET output == IF IsNull(execution.text) THEN <<>> ELSE trim(Val(execution.text))
      stdout == join(execution.stdout, <<>>)
      stderr == join(execution.stderr, <<>>)
  IN IF Len(output) > 0 THEN output
     ELSE join(filterNonEmpty(<<trim(stdout), trim(stderr)>>), <<"\n\n">>)
executionOutput_LogsFirst(execution) ==
  LET output == IF IsNull(execution.text) THEN <<>> ELSE trim(Val(execution.text))
      stdout == join(execution.stdout, <<>>)
      stderr == join(execution.stderr, <<>>)
      combined == join(filterNonEmpty(<<trim(stdout), trim(stderr)>>), <<"\n\n">>)
  IN IF Len(combined) > 0 THEN combined
     ELSE OrElse(output, <<"Execution finished with no output.">>)
executionOutput(execution) ==
  LET output == IF IsNull(execution.text) THEN <<>> ELSE trim(Val(execution.text))
      stdout == join(execution.stdout, <<>>)
      stderr == join(execution.stderr, <<>>)
      combined == join(filterNonEmpty(<<trim(stdout), trim(stderr)>>), <<"\n\n">>)
  IN IF Len(output) > 0 THEN output
     ELSE OrElse(combined, <<"Execution finished with no output.">>)

\* a language that is the number 42 and not a string (the symbol stands in
\* no string): the request body is free to carry one
NumberLanguage == <<"(the number 42)">>
isString(language) == language # NumberLanguage

\* (language || "python").toLowerCase() stands before the try: with the
\* credential present, a truthy language that is no string has no such method
runInE2bThrows(language, apiKey) ==
  apiKey /\ ~IsNull(language) /\ ~isString(Val(language))
NotAFunction == <<"(language || \"python\").toLowerCase is not a function">>

runInE2b(code, language, apiKey, sandbox) ==
  IF ~apiKey
    THEN Failure(<<"E2B_API_KEY is required in .env.local to run code in the sandbox.">>)
  ELSE IF sandbox.kind \in {"createThrows", "throws"}
    THEN Failure(<<"Failed to run code in e2b sandbox: ">> \o sandbox.message)
  ELSE IF sandbox.kind = "fault"
    THEN Failure(<<"Sandbox execution error (">> \o sandbox.name \o <<"): ">>
                   \o sandbox.value
                   \o (IF IsNull(sandbox.traceback) \/ Len(Val(sandbox.traceback)) = 0
                         THEN <<>>
                         ELSE <<"\n">> \o Val(sandbox.traceback)))
  ELSE Success(executionOutput(sandbox))

\* ---------------------------------------------------- model responses
\* A JSON value as typeof sees it
JString(s) == [type |-> "string", str |-> s]
JUndefined == [type |-> "undefined", str |-> <<>>]
JNumber == [type |-> "number", str |-> <<>>]
JNull == [type |-> "null", str |-> <<>>]

\* String(x): a string is itself, the number stands for 42
String(x) ==
  IF x.type = "string" THEN x.str
  ELSE IF x.type = "number" THEN <<"42">>
  ELSE <<x.type>>

\* items.map((x) => String(x))
mapString(items) == [i \in DOMAIN items |-> String(items[i])]

\* One candidate fragment of a response payload: whether its trimmed text
\* starts with "{" and ends with "}", and what JSON.parse makes of it
\* (Null when JSON.parse throws).
Candidate(braces, parsed) == [braces |-> braces, parsed |-> parsed]

\* An HTTP response of the model provider: status, payload.error.message,
\* and the candidate fragments of the payload in response order.
Response(status, errorMessage, candidates) ==
  [status |-> status, errorMessage |-> errorMessage, candidates |-> candidates]

ok_Retryable(response) == response.status \in 200..299 \cup {429} \cup 500..599
ok(response) == response.status \in 200..299

\* SuggestionResponsePayload.  A text (output_text, content.text) is known
\* by whether it is blank, whether its trimmed form starts with "{" and ends
\* with "}", and what JSON.parse makes of that (Null: it throws); a
\* content.json by whether it is an array and by its value.  Null stands
\* for a field that is absent or of another type.
TextFragment(blank, braces, parsed) ==
  [blank |-> blank, braces |-> braces, parsed |-> parsed]
JsonFragment(isArray, value) == [isArray |-> isArray, value |-> value]
ContentBlock(text, json) == [text |-> text, json |-> json]
Payload(output_text, output) == [output_text |-> output_text, output |-> output]

\* candidates.push(text.trim()) when the text is a non-blank string
textCandidate(text) ==
  IF IsNull(text) \/ Val(text).blank THEN <<>>
  ELSE <<Candidate(Val(text).braces, Val(text).parsed)>>

\* candidates.push(JSON.stringify(content.json)) when it is an object
jsonCandidate(json) ==
  IF IsNull(json) THEN <<>>
  ELSE IF Val(json).isArray THEN <<Candidate(FALSE, Null)>>
  ELSE <<Candidate(TRUE, Some(Val(json).value))>>

RECURSIVE contentCandidates_JsonFirst(_)
contentCandidates_JsonFirst(content) ==
  IF Len(content) = 0 THEN <<>>
  ELSE jsonCandidate(Head(content).json) \o textCandidate(Head(content).text)
         \o contentCandidates_JsonFirst(Tail(content))
RECURSIVE contentCandidates(_)
contentCandidates(content) ==
  IF Len(content) = 0 THEN <<>>
  ELSE textCandidate(Head(content).text) \o jsonCandidate(Head(content).json)
         \o contentCandidates(Tail(content))

RECURSIVE outputCandidates(_)
outputCandidates(output) ==
  IF Len(output) = 0 THEN <<>>
  ELSE contentCandidates(Head(output)) \o outputCandidates(Tail(output))

\* the candidates array of extractFirstJsonCandidate
candidatesOf(payload) ==
  textCandidate(payload.output_text)
    \o (IF IsNull(payload.output) THEN <<>>
        ELSE outputCandidates(Val(payload.output)))

RECURSIVE extractFirstJsonCandidate(_)
extractFirstJsonCandidate(candidates) ==
  IF Len(candidates) = 0 THEN Null
  ELSE IF Head(candidates).braces THEN Some(Head(candidates))
  ELSE extractFirstJsonCandidate(Tail(candidates))

Threw(message) == [threw |-> TRUE, message |-> message]
Returned(value) == [threw |-> FALSE, value |-> value]

\* trimmed string, or absent when not a string or blank after trimming
trimmedOrAbsent_BlankKept(v) ==
  IF v.type = "string" THEN Some(trim(v.str)) ELSE Null
trimmedOrAbsent(v) ==
  IF v.type = "string" /\ Len(trim(v.str)) > 0 THEN Some(trim(v.str)) ELSE Null

\* the mutant accepts a missing, non-string or empty code
getCodeSuggestion_AnyCode(apiKey, response) ==
  IF ~apiKey
    THEN Threw(<<"OPENAI_API_KEY is required in project root .env.local.">>)
  ELSE IF ~ok(response)
    THEN Threw(<<"Code suggestion request failed.">>)
  ELSE LET jsonString == extractFirstJsonCandidate(response.candidates)
       IN IF IsNull(jsonString)
            THEN Threw(<<"Code suggestion response did not include JSON output.">>)
          ELSE IF IsNull(Val(jsonString).parsed)
            THEN Threw(<<"SyntaxError">>)
          ELSE LET parsed == Val(Val(jsonString).parsed)
               IN Returned([code |-> parsed.code.str,
                            language |-> trimmedOrAbsent(parsed.language),
                            explanation |-> trimmedOrAbsent(parsed.explanation)])

getCodeSuggestion(apiKey, response) ==
  IF ~apiKey
    THEN Threw(<<"OPENAI_API_KEY is required in project root .env.local.">>)
  ELSE IF ~ok(response)
    THEN Threw(IF IsNull(response.errorMessage)
                 THEN <<"Code suggestion request failed with status "
                          \o ToString(response.status) \o ".">>
                 ELSE OrElse(Val(response.errorMessage),
                             <<"Code suggestion request failed with status "
                                 \o ToString(response.status) \o ".">>))
  ELSE LET jsonString == extractFirstJsonCandidate(response.candidates)
       IN IF IsNull(jsonString)
            THEN Threw(<<"Code suggestion response did not include JSON output.">>)
          ELSE IF IsNull(Val(jsonString).parsed)
            THEN Threw(<<"SyntaxError">>)
          ELSE LET parsed == Val(Val(jsonString).parsed)
               IN IF parsed.code.type # "string" \/ Len(parsed.code.str) = 0
                    THEN Threw(<<"Code suggestion JSON did not include a valid 'code' field.">>)
                  ELSE Returned([code |-> parsed.code.str,
                                 language |-> trimmedOrAbsent(parsed.language),
                                 explanation |-> trimmedOrAbsent(parsed.explanation)])

\* missing / requested_changes of the judge's JSON: Null when not an array
normalizedItems(items) ==
  IF IsNull(items) THEN <<>>
  ELSE slice(filterNonEmpty(mapString(Val(items))), MaxListItems)

assessOutputSufficiency_Lenient(apiKey, response) ==
  IF ~apiKey
    THEN Threw(<<"OPENAI_API_KEY is required in project root .env.local.">>)
  ELSE LET jsonString == extractFirstJsonCandidate(response.candidates)
       IN IF ~ok(response) \/ IsNull(jsonString) \/ IsNull(Val(jsonString).parsed)
            THEN Returned([sufficient |-> FALSE, missing |-> <<>>,
                           rationale |-> <<>>, requested_changes |-> <<>>])
          ELSE LET parsed == Val(Val(jsonString).parsed)
               IN Returned([sufficient |-> parsed.sufficient,
                            missing |-> normalizedItems(parsed.missing),
                            rationale |-> IF parsed.rationale.type = "string"
                                            THEN parsed.rationale.str ELSE <<>>,
                            requested_changes |->
                              normalizedItems(parsed.requested_changes)])

assessOutputSufficiency(apiKey, response) ==
  IF ~apiKey
    THEN Threw(<<"OPENAI_API_KEY is required in project root .env.local.">>)
  ELSE IF ~ok(response)
    THEN Threw(IF IsNull(response.errorMessage)
                 THEN <<"Output assessment request failed with status "
                          \o ToString(response.status) \o ".">>
                 ELSE OrElse(Val(response.errorMessage),
                             <<"Output assessment request failed with status "
                                 \o ToString(response.status) \o ".">>))
  ELSE LET jsonString == extractFirstJsonCandidate(response.candidates)
       IN IF IsNull(jsonString)
            THEN Threw(<<"Output assessment response did not include JSON output.">>)
          ELSE IF IsNull(Val(jsonString).parsed)
            THEN Threw(<<"SyntaxError">>)
          ELSE LET parsed == Val(Val(jsonString).parsed)
               IN Returned([sufficient |-> parsed.sufficient,
                            missing |-> normalizedItems(parsed.missing),
                            rationale |-> IF parsed.rationale.type = "string"
                                            THEN parsed.rationale.str ELSE <<>>,
                            requested_changes |->
                              normalizedItems(parsed.requested_changes)])

\* --------------------------------------------------------- orchestrator
VARIABLES
  OPENAI_API_KEY,           \* process.env.OPENAI_API_KEY is set
  E2B_API_KEY,              \* process.env.E2B_API_KEY is set
  maxIterations,            \* parameter, in 1/Den units
  defaultLanguage,          \* parameter
  requireSufficientOutput,  \* parameter
  pc,                       \* where runEvalAgent is suspended
  iteration,                \* loop counter
  steps,                    \* EvalAgentStep[]
  previousSuggestion,       \* CodeSuggestion | null
  lastError,                \* string | null
  suggestion,               \* this iteration's suggestion (Null before it)
  runResult,                \* this iteration's runResult (Null before it)
  result,                   \* the EvalAgentResult returned (Null before)
  thrown,                   \* the message of the error thrown (Null before)
  trace,                    \* history: external calls and how they ended
  sandboxCount,             \* sandboxes the provider has created so far
  http,                     \* the POST /api/eval/agent request being served
  runId,                    \* which runEvalAgent invocation the above belong to
  other,                    \* a second, concurrent invocation (Null when none)
  applied,                  \* a helper function applied on its own: input, output
  feasibility,              \* runFeasibilityCheck: the requests made so far
  sqlEnv,                   \* the process of getSql: NODE_ENV, global.__sql__
  db,                       \* the tables projects and project_files
  handlers                  \* the route handlers being served, each at its await

vars == <<OPENAI_API_KEY, E2B_API_KEY, maxIterations, defaultLanguage,
          requireSufficientOutput, pc, iteration, steps, previousSuggestion,
          lastError, suggestion, runResult, result, thrown, trace,
          sandboxCount, http, runId, other,
                 applied, feasibility, sqlEnv, db, handlers>>

\* the rest of the application, left alone by the eval agent
web == <<feasibility, sqlEnv, db, handlers>>
WebIdle ==
  /\ feasibility = Null /\ sqlEnv = Null /\ db = Null /\ handlers = Null

DefaultMaxIterations == 5

\* a destructuring default: used when the parameter is undefined
Default(param, value) == IF IsNull(param) THEN value ELSE Val(param)

\* iteration < maxIterations
LoopTest_OffByOne(i, max) == i * Den <= max
LoopTest(i, max) == i * Den < max

\* suggestion.language || defaultLanguage
languageOf_AlwaysDefault(sugg, dflt) == dflt
languageOf(sugg, dflt) ==
  IF IsNull(sugg.language) THEN dflt ELSE OrElse(Val(sugg.language), dflt)

\* const step: EvalAgentStep = { iteration, suggestion, runResult }
Step_OneBased(i, sugg, run) ==
  [iteration |-> i + 1, suggestion |-> sugg, runResult |-> run,
   outputAssessment |-> Null]
Step(i, sugg, run) ==
  [iteration |-> i, suggestion |-> sugg, runResult |-> run,
   outputAssessment |-> Null]

\* step.outputAssessment = assessment
WithAssessment_Dropped(step, assessment) == step
WithAssessment(step, assessment) ==
  [step EXCEPT !.outputAssessment = Some(assessment)]

\* if (runResult.success) { if (requireSufficientOutput) { ...judge... } }
judgeConsulted_Always(run, require) == run.success
judgeConsulted(run, require) == run.success /\ require

\* if (!assessment.sufficient) ... continue
retryAfterJudge_Always(assessment) == TRUE
retryAfterJudge(assessment) == ~assessment.sufficient

insufficiencyError_NoMissing(assessment, output) ==
  <<"Execution succeeded but output was insufficient to judge replicability.\n">>
    \o <<"Judge rationale: ">>
    \o OrElse(trim(assessment.rationale), <<"(no rationale)">>) \o <<"\n">>
    \o <<"Requested changes: ">>
    \o OrElse(join(assessment.requested_changes, <<"; ">>), <<"(none listed)">>)
    \o <<"\n\n">>
    \o <<"Output snippet:\n">>
    \o toLogSnippet(output, SnippetChars)
insufficiencyError(assessment, output) ==
  <<"Execution succeeded but output was insufficient to judge replicability.\n">>
    \o <<"Judge rationale: ">>
    \o OrElse(trim(assessment.rationale), <<"(no rationale)">>) \o <<"\n">>
    \o <<"Missing: ">>
    \o OrElse(join(assessment.missing, <<"; ">>), <<"(none listed)">>) \o <<"\n">>
    \o <<"Requested changes: ">>
    \o OrElse(join(assessment.requested_changes, <<"; ">>), <<"(none listed)">>)
    \o <<"\n\n">>
    \o <<"Output snippet:\n">>
    \o toLogSnippet(output, SnippetChars)

\* lastError = runResult.error
executionError_Generic(run) == <<"Execution failed.">>
executionError(run) == run.error

sufficientResult_NoAssessment(allSteps, run, assessment) ==
  [success |-> TRUE, steps |-> allSteps, finalOutput |-> run.output,
   finalAssessment |-> Null]
sufficientResult(allSteps, run, assessment) ==
  [success |-> TRUE, steps |-> allSteps, finalOutput |-> run.output,
   finalAssessment |-> Some(assessment)]

unjudgedResult(allSteps, run) ==
  [success |-> TRUE, steps |-> allSteps, finalOutput |-> run.output,
   finalAssessment |-> Null]

exhaustedResult_Generic(allSteps, err) ==
  [success |-> FALSE, steps |-> allSteps,
   lastError |-> <<"Max iterations reached without a successful run.">>]
exhaustedResult(allSteps, err) ==
  [success |-> FALSE, steps |-> allSteps,
   lastError |-> IF IsNull(err)
                   THEN <<"Max iterations reached without a successful run.">>
                   ELSE Val(err)]

\* history events: a call made, and how it ended: the response or sandbox
\* it got (Null when a missing credential stopped it before any request)
\* with what it returned or threw
Call(op, i, args) == [ev |-> "call", op |-> op, iteration |-> i, args |-> args]
Ret(op, i, input, value) ==
  [ev |-> "return", op |-> op, iteration |-> i, input |-> input, value |-> value]
Throw(op, i, input, message) ==
  [ev |-> "throw", op |-> op, iteration |-> i, input |-> input,
   message |-> message]
\* how many sandboxes one runInE2b call gets from Sandbox.create(), and how
\* many times it calls sandbox.runCode(); input is what the sandbox service
\* does for the call (Null: the call never reaches it)
sandboxesCreated_Retry(input) ==
  IF IsNull(input) THEN 0
  ELSE IF Val(input).kind = "createThrows" THEN 0
  ELSE IF Val(input).kind = "throws" THEN 2 ELSE 1
sandboxesCreated(input) ==
  IF IsNull(input) \/ Val(input).kind = "createThrows" THEN 0 ELSE 1
codeRuns_Retry(input) ==
  IF IsNull(input) \/ Val(input).kind = "createThrows" THEN 0
  ELSE IF Val(input).kind \in {"throws", "fault"} THEN 2 ELSE 1
codeRuns(input) ==
  IF IsNull(input) \/ Val(input).kind = "createThrows" THEN 0 ELSE 1

\* the return of runInE2b also tells which sandbox ran the code (Null: none)
RetExec(i, input, value, sandboxId) ==
  [ev |-> "return", op |-> "execute", iteration |-> i, input |-> input,
   value |-> value, sandboxId |-> sandboxId,
   created |-> sandboxesCreated(input), ran |-> codeRuns(input)]

\* const sandbox = await Sandbox.create(): a sandbox of its own per call
newSandboxId_Cached(count) == 1
newSandboxId(count) == count + 1

\* ------------------------------------------------------------ the inputs
\* maxIterations values: -1 .. MaxIter in steps of 1/Den
MaxIterationsInputs == { Some(n) : n \in (-Den)..(Den * MaxIter) }

RequireSufficientOutputInputs == { Null, Some(TRUE), Some(FALSE) }

DefaultLanguageInputs == { Null, Some(<<"R">>) }

CodeJson(code, language, explanation) ==
  [code |-> code, language |-> language, explanation |-> explanation]

GenResponses ==
  { Response(200, Null,
      <<Candidate(TRUE, Some(CodeJson(JString(<<"c1">>), JString(<<" ">>),
                                      JString(<<>>))))>>),
    Response(200, Null,
      <<Candidate(FALSE, Null),
        Candidate(TRUE, Some(CodeJson(JString(<<"c2">>), JString(<<"P", "y">>),
                                      JString(<<"why">>))))>>),
    Response(500, Some(<<"server error">>), <<>>),
    Response(200, Null, <<Candidate(FALSE, Null)>>),
    Response(200, Null, <<Candidate(TRUE, Null)>>),
    Response(200, Null,
      <<Candidate(TRUE, Some(CodeJson(JString(<<>>), JString(<<>>),
                                      JString(<<>>))))>>) }

\* an output one character longer than the snippet budget
LongOutput == [i \in 1..(SnippetChars + 1) |-> "o" \o ToString(i)]

Sandboxes ==
  { SandboxThrows(<<"timeout">>),
    SandboxFault(<<"NameError">>, <<"x is not defined">>, Null),
    SandboxDone(Some(<<"ok", "\n">>), <<>>, <<>>),
    SandboxDone(Null, <<LongOutput>>, <<>>) }

AssessmentJson(sufficient, missing, rationale, requested) ==
  [sufficient |-> sufficient, missing |-> missing, rationale |-> rationale,
   requested_changes |-> requested]

JudgeResponses ==
  { Response(200, Null,
      <<Candidate(TRUE, Some(AssessmentJson(TRUE, Some(<<>>),
                                            JString(<<"fine">>), Some(<<>>))))>>),
    Response(200, Null,
      <<Candidate(TRUE, Some(AssessmentJson(FALSE,
                                            Some(<<JString(<<"seed">>), JString(<<>>),
                                                   JString(<<"env">>)>>),
                                            JString(<<" ", "thin", " ">>),
                                            Some(<<JString(<<"print seed">>)>>))))>>),
    Response(200, Null,
      <<Candidate(TRUE, Some(AssessmentJson(FALSE, Null, JNumber, Some(<<>>))))>>),
    Response(429, Null, <<>>),
    Response(200, Null, <<>>),
    Response(200, Null, <<Candidate(TRUE, Null)>>) }

\* ----------------------------------------------------------- the actions
Init ==
  /\ OPENAI_API_KEY \in BOOLEAN
  /\ E2B_API_KEY \in BOOLEAN
  /\ \E m \in MaxIterationsInputs :
       maxIterations = Default(m, DefaultMaxIterations * Den)
  /\ \E l \in DefaultLanguageInputs : defaultLanguage = Default(l, python3)
  /\ \E r \in RequireSufficientOutputInputs :
       requireSufficientOutput = Default(r, TRUE)
  /\ pc = "loop"
  /\ iteration = 0
  /\ steps = <<>>
  /\ previousSuggestion = Null
  /\ lastError = Null
  /\ suggestion = Null
  /\ runResult = Null
  /\ result = Null
  /\ thrown = Null
  /\ trace = <<>>
  /\ sandboxCount = 0
  /\ http = Null
  /\ runId = 1
  /\ other = Null
  /\ applied = Null
  /\ WebIdle

params == <<OPENAI_API_KEY, E2B_API_KEY, maxIterations, defaultLanguage,
            requireSufficientOutput>>

\* what buildUserPrompt tells the generator about the attempts so far
userPromptParts(prev, err, i) ==
  <<[part |-> IF i = 0 THEN "first attempt" ELSE "refinement", text |-> <<>>]>>
    \o (IF IsNull(prev) THEN <<>>
        ELSE <<[part |-> "previous code", text |-> Val(prev).code]>>)
    \o (IF IsNull(err) \/ Len(Val(err)) = 0 THEN <<>>
        ELSE <<[part |-> "last error", text |-> Val(err)]>>)

LoopHead_NoContext ==
  /\ pc = "loop"
  /\ IF LoopTest(iteration, maxIterations)
       THEN /\ pc' = "generate"
            /\ trace' = Append(trace,
                 Call("generate", iteration,
                      [previousSuggestion |-> Null,
                       lastError |-> lastError, iteration |-> iteration]))
            /\ UNCHANGED result
       ELSE /\ pc' = "returned"
            /\ result' = Some(exhaustedResult(steps, lastError))
            /\ UNCHANGED trace
  /\ UNCHANGED <<params, iteration, steps, previousSuggestion, lastError,
                 suggestion, runResult, thrown, sandboxCount, http, runId, other,
                 applied, web>>

LoopHead_Speculative ==
  \/ /\ pc = "loop"
     /\ IF LoopTest(iteration, maxIterations)
          THEN /\ pc' = "generate"
               /\ trace' = Append(trace,
                    Call("generate", iteration,
                         [previousSuggestion |-> previousSuggestion,
                          lastError |-> lastError, iteration |-> iteration]))
               /\ UNCHANGED result
          ELSE /\ pc' = "returned"
               /\ result' = Some(exhaustedResult(steps, lastError))
               /\ UNCHANGED trace
     /\ UNCHANGED <<params, iteration, steps, previousSuggestion, lastError,
                    suggestion, runResult, thrown, sandboxCount, http, runId, other,
                 applied, web>>
  \/ /\ pc = "execute"
     /\ trace[Len(trace)].ev = "call"
     /\ LoopTest(iteration + 1, maxIterations)
     /\ trace' = Append(trace,
          Call("generate", iteration + 1,
               [previousSuggestion |-> suggestion,
                lastError |-> lastError, iteration |-> iteration + 1]))
     /\ UNCHANGED <<params, pc, iteration, steps, previousSuggestion, lastError,
                    suggestion, runResult, result, thrown, sandboxCount, http,
                    runId, other,
                 applied, web>>

\* the for-loop head: either the generator is called or the loop is exhausted
LoopHead ==
  /\ pc = "loop"
  /\ IF LoopTest(iteration, maxIterations)
       THEN /\ pc' = "generate"
            /\ trace' = Append(trace,
                 Call("generate", iteration,
                      [previousSuggestion |-> previousSuggestion,
                       lastError |-> lastError, iteration |-> iteration]))
            /\ UNCHANGED result
       ELSE /\ pc' = "returned"
            /\ result' = Some(exhaustedResult(steps, lastError))
            /\ UNCHANGED trace
  /\ UNCHANGED <<params, iteration, steps, previousSuggestion, lastError,
                 suggestion, runResult, thrown, sandboxCount, http, runId, other,
                 applied, web>>

\* await getCodeSuggestion(...) settles; on a value runInE2b is called
GenerateReturn(response) ==
  /\ pc = "generate"
  /\ LET r == getCodeSuggestion(OPENAI_API_KEY, response)
         request == IF OPENAI_API_KEY THEN Some(response) ELSE Null
     IN IF r.threw
          THEN /\ pc' = "threw"
               /\ thrown' = Some(r.message)
               /\ trace' = Append(trace,
                    Throw("generate", iteration, request, r.message))
               /\ UNCHANGED suggestion
          ELSE /\ pc' = "execute"
               /\ suggestion' = Some(r.value)
               /\ trace' = trace \o
                    <<Ret("generate", iteration, request, r.value),
                      Call("execute", iteration,
                           [code |-> r.value.code,
                            language |-> languageOf(r.value, defaultLanguage)])>>
               /\ UNCHANGED thrown
  /\ UNCHANGED <<params, iteration, steps, previousSuggestion, lastError,
                 runResult, result, sandboxCount, http, runId, other,
                 applied, web>>

\* runInE2b resolves to a result, which the loop acts on
ExecuteSettles(sandbox) ==
  /\ LET sugg == Val(suggestion)
         run == runInE2b(sugg.code, Some(languageOf(sugg, defaultLanguage)),
                         E2B_API_KEY, sandbox)
         step == Step(iteration, sugg, run)
         created == IF E2B_API_KEY THEN Some(sandbox) ELSE Null
         provisioned == sandboxesCreated(created) > 0
         sandboxId == IF provisioned THEN Some(newSandboxId(sandboxCount))
                      ELSE Null
         returned == RetExec(iteration, created, run, sandboxId)
     IN /\ runResult' = Some(run)
        /\ UNCHANGED thrown
        /\ sandboxCount' = sandboxCount + sandboxesCreated(created)
        /\ IF judgeConsulted(run, requireSufficientOutput)
             THEN /\ pc' = "judge"
                  /\ trace' = trace \o
                       <<returned,
                         Call("judge", iteration, [stdout |-> run.output])>>
                  /\ UNCHANGED <<iteration, steps, previousSuggestion,
                                 lastError, suggestion, result>>
           ELSE IF run.success
             THEN /\ steps' = Append(steps, step)
                  /\ pc' = "returned"
                  /\ result' = Some(unjudgedResult(steps', run))
                  /\ trace' = Append(trace, returned)
                  /\ UNCHANGED <<iteration, previousSuggestion, lastError,
                                 suggestion>>
           ELSE /\ steps' = Append(steps, step)
                /\ previousSuggestion' = Some(sugg)
                /\ lastError' = Some(executionError(run))
                /\ iteration' = iteration + 1
                /\ pc' = "loop"
                /\ suggestion' = Null
                /\ trace' = Append(trace, returned)
                /\ UNCHANGED result

\* await runInE2b(...) settles
ExecuteReturn(sandbox) ==
  /\ pc = "execute"
  /\ IF runInE2bThrows(Some(languageOf(Val(suggestion), defaultLanguage)),
                       E2B_API_KEY)
       THEN /\ pc' = "threw"
            /\ thrown' = Some(NotAFunction)
            /\ trace' = Append(trace,
                 Throw("execute", iteration, Null, NotAFunction))
            /\ UNCHANGED <<iteration, steps, previousSuggestion, lastError,
                           suggestion, runResult, result, sandboxCount>>
       ELSE ExecuteSettles(sandbox)
  /\ UNCHANGED <<params, http, runId, other, applied, web>>

\* await assessOutputSufficiency(...) settles
JudgeReturn(response) ==
  /\ pc = "judge"
  /\ LET sugg == Val(suggestion)
         run == Val(runResult)
         r == assessOutputSufficiency(OPENAI_API_KEY, response)
         request == IF OPENAI_API_KEY THEN Some(response) ELSE Null
     IN IF r.threw
          THEN /\ pc' = "threw"
               /\ thrown' = Some(r.message)
               /\ trace' = Append(trace,
                    Throw("judge", iteration, request, r.message))
               /\ UNCHANGED <<iteration, steps, previousSuggestion, lastError,
                              suggestion, result>>
          ELSE /\ steps' = Append(steps,
                     WithAssessment(Step(iteration, sugg, run), r.value))
               /\ trace' = Append(trace, Ret("judge", iteration, request, r.value))
               /\ UNCHANGED thrown
               /\ IF retryAfterJudge(r.value)
                    THEN /\ previousSuggestion' = Some(sugg)
                         /\ lastError' =
                              Some(insufficiencyError(r.value, run.output))
                         /\ iteration' = iteration + 1
                         /\ pc' = "loop"
                         /\ suggestion' = Null
                         /\ UNCHANGED result
                    ELSE /\ pc' = "returned"
                         /\ result' = Some(sufficientResult(steps', run, r.value))
                         /\ UNCHANGED <<iteration, previousSuggestion,
                                        lastError, suggestion>>
  /\ UNCHANGED <<params, runResult, sandboxCount, http, runId, other,
                 applied, web>>

Next ==
  \/ LoopHead
  \/ \E response \in GenResponses : GenerateReturn(response)
  \/ \E sandbox \in Sandboxes : ExecuteReturn(sandbox)
  \/ \E response \in JudgeResponses : JudgeReturn(response)

Spec == Init /\ [][Next]_vars

\* ------------------------------------------------------------ properties
Events == DOMAIN trace
Last(seq) == seq[Len(seq)]
IsPrefix(a, b) == Len(a) <= Len(b) /\ SubSeq(b, 1, Len(a)) = a

HasReturned == pc = "returned"
TheResult == Val(result)

ExecSucceeded(k) ==
  \E e \in Events :
    /\ trace[e].ev = "return" /\ trace[e].op = "execute"
    /\ trace[e].iteration = k /\ trace[e].value.success

ExecFailed(k) ==
  \E e \in Events :
    /\ trace[e].ev = "return" /\ trace[e].op = "execute"
    /\ trace[e].iteration = k /\ ~trace[e].value.success

JudgedSufficient(k) ==
  \E e \in Events :
    /\ trace[e].ev = "return" /\ trace[e].op = "judge"
    /\ trace[e].iteration = k /\ trace[e].value.sufficient

\* the number of iterations the loop test admits: the least n >= 0 with
\* n >= maxIterations
IterationBudget ==
  CHOOSE n \in 0..(MaxIter + 1) :
    /\ n * Den >= maxIterations
    /\ \A j \in 0..(n - 1) : j * Den < maxIterations

\* C1 -- Early termination: once iteration k's execution has returned
\* Success and either requireSufficientOutput is false or the judge has
\* returned sufficient=true for k, the run has returned a Success result
\* with exactly k+1 steps and the history holds no generator, executor or
\* judge call of an iteration after k.
C1_EarlyTermination ==
  \A k \in 0..iteration :
    (ExecSucceeded(k) /\ (~requireSufficientOutput \/ JudgedSufficient(k)))
      => /\ HasReturned
         /\ TheResult.success
         /\ Len(TheResult.steps) = k + 1
         /\ \A e \in Events : trace[e].iteration <= k

C1_Witness ==
  /\ HasReturned /\ TheResult.success
  /\ Len(TheResult.steps) = 2
  /\ ExecSucceeded(0) /\ ~JudgedSufficient(0) /\ JudgedSufficient(1)

StepsIndexed(history) ==
  \A i \in 1..Len(history) : history[i].iteration = i - 1

GeneratorFailed(response) ==
  \/ response.status \notin 200..299
  \/ \A c \in DOMAIN response.candidates : ~response.candidates[c].braces
  \/ \E c \in DOMAIN response.candidates :
       /\ response.candidates[c].braces
       /\ \A b \in 1..(c - 1) : ~response.candidates[b].braces
       /\ \/ IsNull(response.candidates[c].parsed)
          \/ Val(response.candidates[c].parsed).code.type # "string"
          \/ Val(response.candidates[c].parsed).code.str = <<>>

\* C4 -- A generator failure at iteration k is fatal: the call throws, the
\* run ends with that error and no result, the throw is the last event of
\* the history, and the history holds no executor or judge call of iteration
\* k and no call of a later iteration.
C4_GeneratorFailureFatal ==
  \A e \in Events :
    (/\ trace[e].op = "generate" /\ trace[e].ev \in {"return", "throw"}
     /\ ~IsNull(trace[e].input) /\ GeneratorFailed(Val(trace[e].input)))
      => /\ trace[e].ev = "throw"
         /\ e = Len(trace)
         /\ pc = "threw"
         /\ thrown = Some(trace[e].message)
         /\ result = Null
         /\ iteration = trace[e].iteration
         /\ \A f \in Events :
              /\ trace[f].iteration <= trace[e].iteration
              /\ trace[f].iteration = trace[e].iteration
                   => trace[f].op = "generate"

C4_Witness ==
  /\ pc = "threw"
  /\ iteration = 1 /\ Len(steps) = 1
  /\ Last(trace).op = "generate"
  /\ ok(Val(Last(trace).input))

\* C5 -- An execution Failure at iteration k is absorbed: the step that
\* returns it records the step without assessment, sets previousSuggestion
\* to this iteration's suggestion and lastError to exactly the executor's
\* error text, calls no judge, neither throws nor returns, and moves to the
\* loop head of k+1; from the loop head the generator is called when
\* k+1 < maxIterations and a Failure result is returned otherwise; and the
\* only calls whose failure is thrown are the generator's and the judge's.
C5_ExecutionFailureAbsorbed ==
  [][/\ (pc = "execute" /\ pc' # "execute" /\ ~Val(runResult').success)
          => /\ Last(trace').op = "execute" /\ Last(trace').ev = "return"
             /\ Val(runResult') = Last(trace').value
             /\ steps' = Append(steps,
                  [iteration |-> iteration, suggestion |-> Val(suggestion),
                   runResult |-> Val(runResult'), outputAssessment |-> Null])
             /\ previousSuggestion' = suggestion
             /\ lastError' = Some(Last(trace').value.error)
             /\ iteration' = iteration + 1
             /\ pc' = "loop"
             /\ thrown' = Null /\ result' = Null
     /\ (pc = "loop" /\ pc' # "loop")
          => IF iteration * Den < maxIterations
               THEN /\ pc' = "generate"
                    /\ Last(trace').ev = "call" /\ Last(trace').op = "generate"
                    /\ Last(trace').iteration = iteration
               ELSE /\ pc' = "returned"
                    /\ ~Val(result').success
     /\ (thrown' # Null)
          => /\ Last(trace').ev = "throw"
             /\ Last(trace').op \in {"generate", "judge"}]_vars

C5_Witness ==
  /\ pc = "generate" /\ iteration = 2
  /\ ExecFailed(0) /\ ExecFailed(1)
  /\ steps[1].runResult.error # steps[2].runResult.error
  /\ lastError = Some(steps[2].runResult.error)

\* what the insufficiency composite embeds: the rationale (trimmed), every
\* missing item, every requested change, and after "Output snippet:" a
\* prefix of the output of at most SnippetChars characters with at most
\* a truncation marker behind it
EmbedsJudgment(err, assessment, output) ==
  /\ Contains(err, trim(assessment.rationale))
  /\ \A m \in DOMAIN assessment.missing : Contains(err, assessment.missing[m])
  /\ \A c \in DOMAIN assessment.requested_changes :
       Contains(err, assessment.requested_changes[c])
  /\ \E j \in DOMAIN err :
       /\ err[j] = "Output snippet:\n"
       /\ IsPrefix(slice(output, SnippetChars), SubSeq(err, j + 1, Len(err)))
       /\ Len(err) - j <= SnippetChars + 1

\* C6 -- When the judge returns sufficient=false at iteration k the run
\* neither returns nor throws but moves to the loop head of k+1 with
\* previousSuggestion = iteration k's suggestion and lastError = a composite
\* that embeds the rationale, every missing item, every requested change and
\* a bounded prefix of the output; and every generator call is passed
\* exactly the previousSuggestion and lastError held at the loop head.
C6_InsufficientRetries ==
  [][/\ (/\ pc = "judge" /\ pc' # "judge"
         /\ Last(trace').ev = "return" /\ ~Last(trace').value.sufficient)
          => /\ pc' = "loop"
             /\ result' = Null /\ thrown' = Null
             /\ iteration' = iteration + 1
             /\ previousSuggestion' = suggestion
             /\ ~IsNull(lastError')
             /\ EmbedsJudgment(Val(lastError'), Last(trace').value,
                               Val(runResult).output)
     /\ (pc = "loop" /\ pc' = "generate")
          => /\ Last(trace').args.lastError = lastError
             /\ Last(trace').args.previousSuggestion = previousSuggestion
             /\ Last(trace').args.iteration = iteration]_vars

C6_Witness ==
  /\ pc = "generate" /\ iteration = 1
  /\ ExecSucceeded(0) /\ ~JudgedSufficient(0)
  /\ steps[1].runResult.output = LongOutput
  /\ Contains(Val(Last(trace).args.lastError), <<"seed">>)
  /\ Last(trace).args.previousSuggestion = Some(steps[1].suggestion)

GenericError == <<"Max iterations reached without a successful run.">>

\* the error context a recorded step leaves behind
ErrorContextOf(step) ==
  IF step.runResult.success
    THEN insufficiencyError(Val(step.outputAssessment), step.runResult.output)
    ELSE step.runResult.error

C8_SuccessResult ==
  (HasReturned /\ TheResult.success)
    => /\ TheResult.steps # <<>>
       /\ Last(TheResult.steps).runResult.success
       /\ Last(TheResult.steps).runResult.output = TheResult.finalOutput
       /\ ~IsNull(TheResult.finalAssessment)
            => TheResult.finalAssessment = Last(TheResult.steps).outputAssessment
       /\ IsNull(TheResult.finalAssessment) <=> ~requireSufficientOutput

C8_Witness ==
  /\ HasReturned /\ TheResult.success
  /\ Len(TheResult.steps) = 2
  /\ ~IsNull(TheResult.finalAssessment)
  /\ TheResult.steps[1].runResult.success
  /\ TheResult.steps[1].runResult.output # TheResult.finalOutput

\* C9 -- Judge-only-on-success: in every returned result a step with an
\* outputAssessment has a Success runResult, and when
\* requireSufficientOutput is true every step with a Success runResult has
\* an outputAssessment.
C9_JudgeOnlyOnSuccess ==
  HasReturned =>
    \A i \in DOMAIN TheResult.steps :
      /\ ~IsNull(TheResult.steps[i].outputAssessment)
           => TheResult.steps[i].runResult.success
      /\ (requireSufficientOutput /\ TheResult.steps[i].runResult.success)
           => ~IsNull(TheResult.steps[i].outputAssessment)

C9_Witness ==
  /\ HasReturned
  /\ Len(TheResult.steps) = 3
  /\ ~TheResult.steps[1].runResult.success
  /\ IsNull(TheResult.steps[1].outputAssessment)
  /\ ~IsNull(TheResult.steps[2].outputAssessment)
  /\ ~IsNull(TheResult.steps[3].outputAssessment)

\* C10 -- Every judge call of the history is made with
\* requireSufficientOutput true, directly after the executor of the same
\* iteration returned Success, and is the only judge call of its iteration;
\* an iteration whose execution failed has no judge call.
C10_JudgeCalls ==
  \A e \in Events :
    /\ (trace[e].ev = "call" /\ trace[e].op = "judge")
         => /\ requireSufficientOutput
            /\ e > 1
            /\ trace[e - 1].ev = "return" /\ trace[e - 1].op = "execute"
            /\ trace[e - 1].iteration = trace[e].iteration
            /\ trace[e - 1].value.success
            /\ \A f \in Events :
                 (/\ trace[f].ev = "call" /\ trace[f].op = "judge"
                  /\ trace[f].iteration = trace[e].iteration) => f = e
    /\ (/\ trace[e].ev = "return" /\ trace[e].op = "execute"
        /\ ~trace[e].value.success)
         => \A f \in Events :
              ~(trace[f].op = "judge" /\ trace[f].iteration = trace[e].iteration)

C10_Witness ==
  /\ Len(steps) = 3
  /\ ExecFailed(0) /\ ExecSucceeded(1) /\ ExecSucceeded(2)
  /\ Cardinality({e \in Events : trace[e].ev = "call" /\ trace[e].op = "judge"}) = 2

\* ------------------------------------------- the executor on every path
\* One iteration of a run, with the sandbox doing everything it can do.
AllSandboxes ==
  { SandboxCreateThrows(<<"unauthorized">>), SandboxThrows(<<"timeout">>) }
    \cup { SandboxFault(<<"NameError">>, <<"x is not defined">>, tb) :
             tb \in {Null, Some(<<>>), Some(<<"Traceback">>)} }
    \cup { SandboxFaultWithOutput(<<"ValueError">>, <<"bad seed">>,
                                    Some(<<"Traceback">>), Some(<<"ok">>),
                                    <<<<"a">>>>, <<>>) }
    \cup { SandboxDone(text, stdout, stderr) :
             text \in {Null, Some(<<>>), Some(<<" ">>), Some(<<"ok", "\n">>)},
             stdout \in {<<>>, <<<<" ">>>>, <<<<"a">>, <<"b", "\n">>>>},
             stderr \in {<<>>, <<<<"\n">>>>, <<<<"warn">>>>} }

InitE2b ==
  /\ Init
  /\ OPENAI_API_KEY
  /\ maxIterations = Den
  /\ defaultLanguage = python3

NextE2b ==
  \/ LoopHead
  \/ \E response \in {r \in GenResponses : ~GeneratorFailed(r)} :
       GenerateReturn(response)
  \/ \E sandbox \in AllSandboxes : ExecuteReturn(sandbox)
  \/ \E response \in JudgeResponses : JudgeReturn(response)

SpecE2b == InitE2b /\ [][NextE2b]_vars

ExactlyOneVariant(r) ==
  IF r.success
    THEN DOMAIN r = {"success", "output"} /\ Len(r.output) > 0
    ELSE DOMAIN r = {"success", "error"} /\ Len(r.error) > 0

\* C11 -- Exactly-one-variant: every result runInE2b returns, and every
\* runResult recorded in a step, is a Success with a non-empty output and no
\* error field or a Failure with a non-empty error and no output field.
C11_ExactlyOneVariant ==
  /\ \A e \in Events :
       (trace[e].ev = "return" /\ trace[e].op = "execute")
         => ExactlyOneVariant(trace[e].value)
  /\ \A i \in DOMAIN steps : ExactlyOneVariant(steps[i].runResult)

\* the empty-output path: a blank text result and blank logs
C11_Witness ==
  /\ Len(steps) = 1
  /\ steps[1].runResult = Success(<<"Execution finished with no output.">>)
  /\ \E e \in Events :
       /\ trace[e].ev = "return" /\ trace[e].op = "execute"
       /\ Val(trace[e].input).kind = "done"
       /\ Val(trace[e].input).text = Some(<<" ">>)
       /\ Val(trace[e].input).stdout = <<<<" ">>>>

\* ----------------------------------------------------- judge failures
\* the judge's response is one assessOutputSufficiency throws on
JudgeFailed(response) ==
  \/ ~ok(response)
  \/ \A c \in DOMAIN response.candidates : ~response.candidates[c].braces
  \/ \E c \in DOMAIN response.candidates :
       /\ response.candidates[c].braces
       /\ \A b \in 1..(c - 1) : ~response.candidates[b].braces
       /\ IsNull(response.candidates[c].parsed)

\* C12 -- A judge failure (non-OK status, no JSON candidate, unparseable
\* JSON) after the successful execution of iteration k is fatal: the call
\* throws, the run ends with that error and no result, the throw is the last
\* event of the history, step k is not recorded, and no call of iteration
\* k+1 exists.
C12_JudgeFailureFatal ==
  \A e \in Events :
    (/\ trace[e].op = "judge" /\ trace[e].ev \in {"return", "throw"}
     /\ ~IsNull(trace[e].input) /\ JudgeFailed(Val(trace[e].input)))
      => /\ trace[e].ev = "throw"
         /\ e = Len(trace)
         /\ pc = "threw"
         /\ thrown = Some(trace[e].message)
         /\ result = Null
         /\ iteration = trace[e].iteration
         /\ Len(steps) = trace[e].iteration
         /\ ExecSucceeded(trace[e].iteration)
         /\ \A f \in Events : trace[f].iteration <= trace[e].iteration

\* a judge failure at the second iteration, after one recorded step
C12_Witness ==
  /\ pc = "threw"
  /\ iteration = 1 /\ Len(steps) = 1
  /\ Last(trace).op = "judge" /\ Last(trace).ev = "throw"
  /\ JudgeFailed(Val(Last(trace).input))

\* ------------------------------------------------- order of the calls
Settles(e) == trace[e].ev \in {"return", "throw"}

\* the calls that have not settled yet
InFlight ==
  { e \in Events :
      /\ trace[e].ev = "call"
      /\ ~\E f \in Events :
            /\ f > e /\ Settles(f)
            /\ trace[f].op = trace[e].op
            /\ trace[f].iteration = trace[e].iteration }

\* what must come right before the call at position e
PrecededInOrder(e) ==
  LET n == trace[e].iteration
  IN IF trace[e].op = "generate"
       THEN IF n = 0 THEN e = 1
            ELSE /\ e > 1
                 /\ trace[e - 1].ev = "return"
                 /\ trace[e - 1].iteration = n - 1
                 /\ trace[e - 1].op \in {"execute", "judge"}
                 /\ trace[e - 1].op = "execute" => ~ExecSucceeded(n - 1)
     ELSE IF trace[e].op = "execute"
       THEN /\ e > 1
            /\ trace[e - 1].ev = "return" /\ trace[e - 1].op = "generate"
            /\ trace[e - 1].iteration = n
     ELSE /\ e > 1
          /\ trace[e - 1].ev = "return" /\ trace[e - 1].op = "execute"
          /\ trace[e - 1].iteration = n

\* C17 -- Within one run the loop is strictly sequential: every call is
\* settled by the very next event before any other call starts, each
\* iteration's calls come in the order generate, execute, (judge), the
\* generator call of iteration n+1 comes right after the return of iteration
\* n's last call, and at most one external call is in flight.
C17_StrictlySequential ==
  /\ Cardinality(InFlight) <= 1
  /\ \A e \in Events :
       /\ trace[e].ev = "call" =>
            /\ PrecededInOrder(e)
            /\ e < Len(trace) =>
                 /\ Settles(e + 1)
                 /\ trace[e + 1].op = trace[e].op
                 /\ trace[e + 1].iteration = trace[e].iteration
       /\ Settles(e) =>
            /\ e > 1
            /\ trace[e - 1].ev = "call"
            /\ trace[e - 1].op = trace[e].op
            /\ trace[e - 1].iteration = trace[e].iteration
       /\ \A f \in Events : f < e => trace[f].iteration <= trace[e].iteration

\* two full generate, execute, judge sequences and a third generator call
C17_Witness ==
  /\ pc = "generate" /\ iteration = 2
  /\ Cardinality(InFlight) = 1
  /\ \A k \in {0, 1} :
       \E e \in Events : trace[e].op = "judge" /\ trace[e].iteration = k

\* ------------------------------------------------ missing credentials
\* a call that found its credential missing made no request: its settling
\* event carries no input
CredentialMissing(e) == Settles(e) /\ IsNull(trace[e].input)

\* C20 -- A missing credential (OPENAI_API_KEY or E2B_API_KEY) is fatal and
\* not retried: the call that detects it is the last external call of the
\* run, no generator, executor or judge call follows it.
C20_MissingCredentialFatal ==
  \A e \in Events : CredentialMissing(e) => e = Len(trace)

\* ------------------------------------------------ POST /api/eval/agent
\* A request body as request.json() leaves it: a rejection, the JSON value
\* null, a JSON value without properties of interest (number, string, array),
\* or an object with the fields the handler reads.
BodyUnparseable == [kind |-> "unparseable"]
BodyNull == [kind |-> "null"]
BodyPrimitive == [kind |-> "primitive"]
BodyObject(task, maxIter, language, require) ==
  [kind |-> "object", task |-> task, maxIterations |-> maxIter,
   defaultLanguage |-> language, requireSufficientOutput |-> require]

\* evaluating body.task?.trim() throws a TypeError
taskThrows(body) ==
  \/ body.kind = "null"
  \/ body.kind = "object" /\ body.task.type \notin {"undefined", "string"}

\* const task = body.task?.trim(), the empty string standing for undefined
taskOf_Untrimmed(body) ==
  IF body.kind = "object" /\ body.task.type = "string"
    THEN body.task.str ELSE <<>>
taskOf(body) ==
  IF body.kind = "object" /\ body.task.type = "string"
    THEN trim(body.task.str) ELSE <<>>

\* the parameters runEvalAgent works with after its destructuring defaults
applyDefaults_NoJudge(maxIter, language, require) ==
  [maxIterations |-> Default(maxIter, DefaultMaxIterations * Den),
   defaultLanguage |-> Default(language, python3),
   requireSufficientOutput |-> Default(require, FALSE)]
applyDefaults(maxIter, language, require) ==
  [maxIterations |-> Default(maxIter, DefaultMaxIterations * Den),
   defaultLanguage |-> Default(language, python3),
   requireSufficientOutput |-> Default(require, TRUE)]

\* NextResponse.json({ success: false, error }, { status })
respondError(status, message) ==
  [status |-> status, body |-> [success |-> FALSE, error |-> message]]

\* NextResponse.json({ success: result.success, result }, { status: 200 })
respondResult_SummaryOnly(r) ==
  [status |-> 200,
   body |-> [success |-> r.success, result |-> [r EXCEPT !.steps = <<>>]]]
respondResult(r) ==
  [status |-> 200, body |-> [success |-> r.success, result |-> r]]

Exchange(stage, body, response) ==
  [stage |-> stage, body |-> body, response |-> response]

\* small sets of responses, so that five iterations stay explorable
FewGenResponses ==
  { Response(200, Null,
      <<Candidate(TRUE, Some(CodeJson(JString(<<"c1">>), JString(<<" ">>),
                                      JString(<<>>))))>>),
    Response(200, Null,
      <<Candidate(TRUE, Some(CodeJson(JString(<<"c2">>), JString(<<"P", "y">>),
                                      JString(<<>>))))>>),
    Response(500, Some(<<"server error">>), <<>>) }

FewSandboxes ==
  { SandboxFault(<<"NameError">>, <<"x is not defined">>, Null),
    SandboxDone(Some(<<"ok", "\n">>), <<>>, <<>>) }

FewJudgeResponses ==
  { Response(200, Null,
      <<Candidate(TRUE, Some(AssessmentJson(TRUE, Some(<<>>),
                                            JString(<<"fine">>), Some(<<>>))))>>),
    Response(200, Null,
      <<Candidate(TRUE, Some(AssessmentJson(FALSE, Some(<<JString(<<"seed">>)>>),
                                            JString(<<"thin">>), Some(<<>>))))>>),
    Response(429, Null, <<>>),
    Response(200, Null, <<Candidate(FALSE, Null)>>),
    Response(200, Null, <<Candidate(TRUE, Null)>>) }

RouteBodies ==
  { BodyUnparseable, BodyNull, BodyPrimitive }
    \cup { BodyObject(task, maxIter, language, require) :
             task \in { JUndefined, JNumber, JString(<<>>), JString(<<" ", "\n">>),
                        JString(<<" ", "t">>) },
             maxIter \in { Null, Some(Den) },
             language \in { Null, Some(<<"R">>) },
             require \in { Null, Some(FALSE) } }

\* no request yet; the parameters of runEvalAgent get their values when the
\* handler invokes it
InitRoute ==
  /\ OPENAI_API_KEY \in BOOLEAN
  /\ E2B_API_KEY \in BOOLEAN
  /\ maxIterations = 0
  /\ defaultLanguage = python3
  /\ requireSufficientOutput = TRUE
  /\ pc = "idle"
  /\ iteration = 0
  /\ steps = <<>>
  /\ previousSuggestion = Null
  /\ lastError = Null
  /\ suggestion = Null
  /\ runResult = Null
  /\ result = Null
  /\ thrown = Null
  /\ trace = <<>>
  /\ sandboxCount = 0
  /\ http = Null
  /\ runId = 1
  /\ other = Null
  /\ applied = Null
  /\ WebIdle

\* the handler up to the call of runEvalAgent
POST(body) ==
  /\ pc = "idle" /\ http = Null
  /\ LET task == taskOf(body)
         invoked == /\ OPENAI_API_KEY /\ body.kind # "unparseable"
                    /\ ~taskThrows(body) /\ Len(task) > 0
         args == IF invoked
                   THEN applyDefaults(body.maxIterations, body.defaultLanguage,
                                      body.requireSufficientOutput)
                   ELSE [maxIterations |-> maxIterations,
                         defaultLanguage |-> defaultLanguage,
                         requireSufficientOutput |-> requireSufficientOutput]
     IN /\ http' =
             IF ~OPENAI_API_KEY
               THEN Exchange("responded", body,
                      Some(respondError(500, <<"OPENAI_API_KEY is required.">>)))
             ELSE IF body.kind = "unparseable"
               THEN Exchange("responded", body,
                      Some(respondError(400, <<"Invalid JSON body.">>)))
             ELSE IF taskThrows(body)
               THEN Exchange("crashed", body, Null)
             ELSE IF Len(task) = 0
               THEN Exchange("responded", body,
                      Some(respondError(400, <<"task is required.">>)))
             ELSE Exchange("running", body, Null)
        /\ pc' = IF invoked THEN "loop" ELSE pc
        /\ maxIterations' = args.maxIterations
        /\ defaultLanguage' = args.defaultLanguage
        /\ requireSufficientOutput' = args.requireSufficientOutput
  /\ UNCHANGED <<OPENAI_API_KEY, E2B_API_KEY, iteration, steps,
                 previousSuggestion, lastError, suggestion, runResult, result,
                 thrown, trace, sandboxCount, runId, other,
                 applied, web>>

\* await runEvalAgent(...) settles: the result is returned, a throw is caught
PostSettle ==
  /\ http # Null /\ http.stage = "running"
  /\ pc \in {"returned", "threw"}
  /\ http' = Exchange("responded", http.body,
               Some(IF pc = "returned" THEN respondResult(Val(result))
                    ELSE respondError(500, Val(thrown))))
  /\ UNCHANGED <<params, pc, iteration, steps, previousSuggestion, lastError,
                 suggestion, runResult, result, thrown, trace, sandboxCount,
                 runId, other,
                 applied, web>>

NextRoute ==
  \/ \E body \in RouteBodies : POST(body)
  \/ LoopHead
  \/ \E response \in FewGenResponses : GenerateReturn(response)
  \/ \E sandbox \in FewSandboxes : ExecuteReturn(sandbox)
  \/ \E response \in FewJudgeResponses : JudgeReturn(response)
  \/ PostSettle

SpecRoute == InitRoute /\ [][NextRoute]_vars

Responded == http # Null /\ http.stage = "responded"
TheResponse == Val(http.response)
Invoked == http # Null /\ pc # "idle"

\* the steps the caller finds in the response
ResponseSteps ==
  IF "result" \in DOMAIN TheResponse.body
    THEN TheResponse.body.result.steps ELSE <<>>

\* the iterations whose execution returned and whose judgment, if asked for,
\* returned too
CompletedIterations ==
  { k \in 0..Len(trace) :
      /\ \E e \in Events : /\ trace[e].ev = "return" /\ trace[e].op = "execute"
                           /\ trace[e].iteration = k
      /\ \A e \in Events :
           (trace[e].ev = "call" /\ trace[e].op = "judge"
              /\ trace[e].iteration = k)
             => \E f \in Events : /\ trace[f].ev = "return"
                                  /\ trace[f].op = "judge"
                                  /\ trace[f].iteration = k }

\* C13 (as stated) -- Whatever the outcome of the run, the response carries
\* the step history of every completed iteration.
C13_FullHistoryAsStated ==
  (Responded /\ Invoked) => ResponseSteps = steps

\* C13 (amended) -- When the run returns (success or exhaustion) the
\* response carries, in order, one step for every completed iteration; when
\* the generator or the judge throws, the response is only
\* {success: false, error} with status 500 and carries no step.
C13_FullHistory ==
  (Responded /\ Invoked) =>
     /\ Len(steps) = Cardinality(CompletedIterations)
     /\ StepsIndexed(steps)
     /\ IF pc = "returned"
          THEN /\ "result" \in DOMAIN TheResponse.body
               /\ TheResponse.body.result.steps = steps
          ELSE /\ pc = "threw"
               /\ TheResponse = respondError(500, Val(thrown))

\* a fatal error after a recorded step, answered without the step
C13_Witness ==
  /\ Responded /\ pc = "threw"
  /\ Len(steps) = 1
  /\ ResponseSteps = <<>>

\* the request body is unparseable, not an object, or its task is missing or
\* not a string
BadBody ==
  /\ http # Null
  /\ \/ http.body.kind # "object"
     \/ http.body.task.type # "string"

\* C14 -- The handler answers every request with a structured response and
\* lets no exception escape: every failure is {success: false, error} with a
\* 4xx/5xx status.
C14_NeverEscapes ==
  http # Null =>
     /\ http.stage # "crashed"
     /\ (Responded /\ (BadBody \/ pc = "threw")) =>
          /\ DOMAIN TheResponse.body = {"success", "error"}
          /\ ~TheResponse.body.success
          /\ TheResponse.status \in 400..599

\* the request's task is absent, or blank after trimming
TaskMissing ==
  /\ http # Null
  /\ \/ http.body.kind = "primitive"
     \/ /\ http.body.kind = "object"
        /\ \/ http.body.task.type = "undefined"
           \/ /\ http.body.task.type = "string"
              /\ Len(trim(http.body.task.str)) = 0

RunCompleted == Responded /\ pc = "returned"

\* C15 (as stated) -- A missing task is answered with status 400 and no
\* call is made; a completed run's result is returned verbatim.
C15_TaskMandatoryAsStated ==
  /\ TaskMissing =>
       /\ Responded /\ TheResponse.status = 400 /\ ~TheResponse.body.success
       /\ pc = "idle" /\ trace = <<>>
  /\ RunCompleted =>
       /\ "result" \in DOMAIN TheResponse.body
       /\ TheResponse.body.result = Val(result)
       /\ TheResponse.body.success = Val(result).success

\* C15 (amended) -- A missing task is answered with a failure and
\* runEvalAgent is never invoked: status 400 "task is required." when
\* OPENAI_API_KEY is set, status 500 when it is not, the credential being
\* checked first; a completed run's result is returned verbatim with status
\* 200 and success equal to result.success.
C15_TaskMandatory ==
  /\ TaskMissing =>
       /\ Responded
       /\ TheResponse =
            IF OPENAI_API_KEY
              THEN respondError(400, <<"task is required.">>)
              ELSE respondError(500, <<"OPENAI_API_KEY is required.">>)
       /\ pc = "idle" /\ trace = <<>>
  /\ RunCompleted =>
       /\ TheResponse.status = 200
       /\ TheResponse.body =
            [success |-> Val(result).success, result |-> Val(result)]

\* a blank task refused with 400
C15_Witness ==
  /\ TaskMissing /\ Responded
  /\ http.body.kind = "object" /\ http.body.task = JString(<<" ", "\n">>)
  /\ TheResponse.status = 400

\* C16 -- Defaults: a run invoked without maxIterations runs as with 5 (at
\* most 5 generator calls and steps, exhaustion after exactly 5), one invoked
\* without defaultLanguage executes code that has no language hint as
\* python3, and one invoked without requireSufficientOutput has every
\* successful execution judged.
C16_Defaults ==
  Invoked =>
    /\ IsNull(http.body.maxIterations) =>
         /\ maxIterations = 5 * Den
         /\ Len(steps) <= 5
         /\ \A e \in Events : trace[e].iteration < 5
         /\ (pc = "returned" /\ ~Val(result).success) => Len(steps) = 5
    /\ IsNull(http.body.defaultLanguage) =>
         /\ defaultLanguage = python3
         /\ \A e \in Events :
              (/\ trace[e].ev = "call" /\ trace[e].op = "execute"
               /\ IsNull(trace[e - 1].value.language))
                 => trace[e].args.language = python3
    /\ IsNull(http.body.requireSufficientOutput) =>
         /\ requireSufficientOutput = TRUE
         /\ \A e \in Events :
              (/\ trace[e].ev = "return" /\ trace[e].op = "execute"
               /\ trace[e].value.success)
                 => /\ e < Len(trace)
                    /\ trace[e + 1].ev = "call" /\ trace[e + 1].op = "judge"
                    /\ trace[e + 1].iteration = trace[e].iteration

\* nothing but the task supplied: five hint-less attempts, then exhaustion
C16_Witness ==
  /\ Invoked /\ pc = "returned"
  /\ IsNull(http.body.maxIterations)
  /\ IsNull(http.body.defaultLanguage)
  /\ IsNull(http.body.requireSufficientOutput)
  /\ Len(steps) = 5 /\ ~Val(result).success
  /\ \E i \in DOMAIN steps :
       /\ steps[i].runResult.success /\ ~IsNull(steps[i].outputAssessment)
       /\ IsNull(steps[i].suggestion.language)

\* ------------------------------------------------ two concurrent runs
\* Two invocations of runEvalAgent in one process.  The variables hold the
\* locals of the invocation that is running; other holds the locals of the
\* invocation that is suspended at an await (or has not run yet, or is done).
\* process.env and the sandbox provider are common to both.
Locals(m, l, r, at, i, history, prev, err, sugg, run, res, exc, events, id) ==
  [maxIterations |-> m, defaultLanguage |-> l, requireSufficientOutput |-> r,
   pc |-> at, iteration |-> i, steps |-> history, previousSuggestion |-> prev,
   lastError |-> err, suggestion |-> sugg, runResult |-> run, result |-> res,
   thrown |-> exc, trace |-> events, runId |-> id]

\* the locals of the running invocation
Current ==
  Locals(maxIterations, defaultLanguage, requireSufficientOutput, pc,
         iteration, steps, previousSuggestion, lastError, suggestion,
         runResult, result, thrown, trace, runId)

TwoMaxIterations == { Den, 2 * Den }

InitTwo ==
  /\ OPENAI_API_KEY = TRUE
  /\ E2B_API_KEY \in BOOLEAN
  /\ maxIterations \in TwoMaxIterations
  /\ defaultLanguage = python3
  /\ requireSufficientOutput \in BOOLEAN
  /\ pc = "loop"
  /\ iteration = 0
  /\ steps = <<>>
  /\ previousSuggestion = Null
  /\ lastError = Null
  /\ suggestion = Null
  /\ runResult = Null
  /\ result = Null
  /\ thrown = Null
  /\ trace = <<>>
  /\ sandboxCount = 0
  /\ http = Null
  /\ runId = 1
  /\ \E m \in TwoMaxIterations, r \in BOOLEAN :
       other = Locals(m, python3, r, "loop", 0, <<>>, Null, Null, Null, Null,
                      Null, Null, <<>>, 2)
  /\ applied = Null
  /\ WebIdle

\* the running invocation is suspended at an await or has ended, and the
\* event loop runs the other one
Switch_SharedSteps ==
  /\ other # Null
  /\ pc # "loop"
  /\ other' = Current
  /\ maxIterations' = other.maxIterations
  /\ defaultLanguage' = other.defaultLanguage
  /\ requireSufficientOutput' = other.requireSufficientOutput
  /\ pc' = other.pc
  /\ iteration' = other.iteration
  /\ steps' = steps
  /\ previousSuggestion' = other.previousSuggestion
  /\ lastError' = other.lastError
  /\ suggestion' = other.suggestion
  /\ runResult' = other.runResult
  /\ result' = other.result
  /\ thrown' = other.thrown
  /\ trace' = other.trace
  /\ runId' = other.runId
  /\ UNCHANGED <<OPENAI_API_KEY, E2B_API_KEY, sandboxCount, http, applied, web>>
Switch ==
  /\ other # Null
  /\ pc # "loop"
  /\ other' = Current
  /\ maxIterations' = other.maxIterations
  /\ defaultLanguage' = other.defaultLanguage
  /\ requireSufficientOutput' = other.requireSufficientOutput
  /\ pc' = other.pc
  /\ iteration' = other.iteration
  /\ steps' = other.steps
  /\ previousSuggestion' = other.previousSuggestion
  /\ lastError' = other.lastError
  /\ suggestion' = other.suggestion
  /\ runResult' = other.runResult
  /\ result' = other.result
  /\ thrown' = other.thrown
  /\ trace' = other.trace
  /\ runId' = other.runId
  /\ UNCHANGED <<OPENAI_API_KEY, E2B_API_KEY, sandboxCount, http, applied, web>>

NextTwo ==
  \/ LoopHead
  \/ \E response \in FewGenResponses : GenerateReturn(response)
  \/ \E sandbox \in FewSandboxes : ExecuteReturn(sandbox)
  \/ \E response \in FewJudgeResponses : JudgeReturn(response)
  \/ Switch

SpecTwo == InitTwo /\ [][NextTwo]_vars

\* what the external calls of a run answered, in order
RECURSIVE Answers(_)
Answers(events) ==
  IF events = <<>> THEN <<>>
  ELSE IF Head(events).ev = "call" THEN Answers(Tail(events))
  ELSE <<Head(events).input>> \o Answers(Tail(events))

\* the run alone: runEvalAgent from the state l over the answers given
RECURSIVE Alone(_, _)
Alone(l, answers) ==
  IF l.pc = "loop"
    THEN IF LoopTest(l.iteration, l.maxIterations)
           THEN Alone([l EXCEPT !.pc = "generate"], answers)
           ELSE [l EXCEPT !.pc = "returned",
                          !.result = Some(exhaustedResult(l.steps, l.lastError))]
  ELSE IF answers = <<>> \/ l.pc \in {"returned", "threw"} THEN l
  ELSE IF l.pc = "generate"
    THEN LET r == getCodeSuggestion(OPENAI_API_KEY,
                    IF IsNull(Head(answers)) THEN Response(0, Null, <<>>)
                    ELSE Val(Head(answers)))
         IN IF r.threw
              THEN [l EXCEPT !.pc = "threw", !.thrown = Some(r.message)]
              ELSE Alone([l EXCEPT !.pc = "execute",
                                   !.suggestion = Some(r.value)],
                         Tail(answers))
  ELSE IF l.pc = "execute"
    THEN LET sugg == Val(l.suggestion)
             run == runInE2b(sugg.code,
                             Some(languageOf(sugg, l.defaultLanguage)),
                             E2B_API_KEY,
                             IF IsNull(Head(answers)) THEN SandboxThrows(<<>>)
                             ELSE Val(Head(answers)))
             history == Append(l.steps, Step(l.iteration, sugg, run))
         IN IF judgeConsulted(run, l.requireSufficientOutput)
              THEN Alone([l EXCEPT !.pc = "judge", !.runResult = Some(run)],
                         Tail(answers))
            ELSE IF run.success
              THEN [l EXCEPT !.pc = "returned", !.runResult = Some(run),
                             !.steps = history,
                             !.result = Some(unjudgedResult(history, run))]
            ELSE Alone([l EXCEPT !.pc = "loop", !.runResult = Some(run),
                                 !.steps = history,
                                 !.previousSuggestion = Some(sugg),
                                 !.lastError = Some(executionError(run)),
                                 !.iteration = l.iteration + 1,
                                 !.suggestion = Null],
                       Tail(answers))
  ELSE LET sugg == Val(l.suggestion)
           run == Val(l.runResult)
           r == assessOutputSufficiency(OPENAI_API_KEY,
                  IF IsNull(Head(answers)) THEN Response(0, Null, <<>>)
                  ELSE Val(Head(answers)))
       IN IF r.threw
            THEN [l EXCEPT !.pc = "threw", !.thrown = Some(r.message)]
          ELSE LET history == Append(l.steps,
                                WithAssessment(Step(l.iteration, sugg, run),
                                               r.value))
               IN IF retryAfterJudge(r.value)
                    THEN Alone([l EXCEPT !.pc = "loop", !.steps = history,
                                         !.previousSuggestion = Some(sugg),
                                         !.lastError =
                                           Some(insufficiencyError(r.value,
                                                                   run.output)),
                                         !.iteration = l.iteration + 1,
                                         !.suggestion = Null],
                               Tail(answers))
                  ELSE [l EXCEPT !.pc = "returned", !.steps = history,
                                 !.result = Some(sufficientResult(history, run,
                                                                  r.value))]

\* the invocation as it was called
Fresh(l) ==
  Locals(l.maxIterations, l.defaultLanguage, l.requireSufficientOutput, "loop",
         0, <<>>, Null, Null, Null, Null, Null, Null, <<>>, l.runId)

\* the run l is where it would be alone, given the same answers
Independent(l) ==
  LET alone == Alone(Fresh(l), Answers(l.trace))
  IN /\ alone.steps = l.steps
     /\ alone.previousSuggestion = l.previousSuggestion
     /\ alone.lastError = l.lastError
     /\ l.pc \in {"returned", "threw"} =>
          /\ alone.pc = l.pc
          /\ alone.result = l.result
          /\ alone.thrown = l.thrown

\* C18 -- Concurrent runs are independent: however two invocations are
\* interleaved at their awaits, the steps, previousSuggestion and lastError
\* of each are those it would have alone with the same answers of its
\* external calls, and so is its result or the error it throws.
C18_Independent ==
  /\ Independent(Current)
  /\ other # Null => Independent(other)

\* the sandboxes a run's executor calls ran their code in
Uses(l) ==
  { [run |-> l.runId, iteration |-> l.trace[e].iteration,
     sandbox |-> Val(l.trace[e].sandboxId)] :
      e \in { f \in DOMAIN l.trace :
                /\ l.trace[f].ev = "return" /\ l.trace[f].op = "execute"
                /\ ~IsNull(l.trace[f].sandboxId) } }

AllUses == Uses(Current) \cup (IF other = Null THEN {} ELSE Uses(other))

\* both runs over, interleaved: the first used the sandboxes created first
\* and third, the second the one created in between
C18_Witness ==
  /\ other # Null
  /\ pc = "returned" /\ other.pc \in {"returned", "threw"}
  /\ Len(steps) # Len(other.steps)
  /\ \E a, b \in Uses(Current), c \in Uses(other) :
       a.sandbox < c.sandbox /\ c.sandbox < b.sandbox

\* C19 -- Each executor call that provisions a sandbox gets one of its own:
\* no sandbox runs the code of two iterations of a run or of two runs, and
\* every sandbox created has run the code of exactly one call.
C19_OwnSandbox ==
  /\ \A a, b \in AllUses : a.sandbox = b.sandbox => a = b
  /\ Cardinality(AllUses) = sandboxCount
  /\ \A l \in {Current} \cup (IF other = Null THEN {} ELSE {other}) :
       \A e \in DOMAIN l.trace :
         (l.trace[e].ev = "return" /\ l.trace[e].op = "execute") =>
            (IsNull(l.trace[e].sandboxId)
               <=> (~E2B_API_KEY \/ Val(l.trace[e].input).kind = "createThrows"))

\* two iterations of one run and one of the other, three sandboxes
C19_Witness ==
  /\ other # Null
  /\ Cardinality(Uses(Current)) = 2
  /\ Cardinality(Uses(other)) = 1
  /\ sandboxCount = 3

\* ------------------------------------------- helper functions on their own
\* One application of a helper: which one, its input, and its output once it
\* has run (Null before).
Application(fn, input) == [fn |-> fn, input |-> input, output |-> Null]

JsonTag(tag) == CodeJson(JString(<<tag>>), JUndefined, JUndefined)

\* one application of getCodeSuggestion to each payload of at most two
\* content blocks, in one output item or in two; the code of a fragment that
\* parses tells where in the payload it stood
ExtractionInputs ==
  LET texts(tag) == { Null, Some(TextFragment(TRUE, FALSE, Null)),
                      Some(TextFragment(FALSE, FALSE, Null)),
                      Some(TextFragment(FALSE, TRUE, Null)),
                      Some(TextFragment(FALSE, TRUE, Some(JsonTag(tag)))) }
      jsons(tag) == { Null, Some(JsonFragment(FALSE, JsonTag(tag))),
                      Some(JsonFragment(TRUE, JsonTag(tag))) }
      blocks(n) == { ContentBlock(t, j) :
                       t \in texts("text" \o ToString(n)) \ {Some(TextFragment(TRUE, FALSE, Null))},
                       j \in jsons("json" \o ToString(n)) }
  IN { Application("getCodeSuggestion", Payload(t, Null)) :
         t \in texts("output_text") }
     \cup { Application("getCodeSuggestion", Payload(t, Some(output))) :
              t \in texts("output_text"),
              output \in { <<<<b1, b2>>>> : b1 \in blocks(1), b2 \in blocks(2) }
                           \cup { <<<<b1>>, <<b2>>>> :
                                    b1 \in blocks(1), b2 \in blocks(2) } }

Texts == UNION { [1..n -> {"a", "b"}] : n \in 0..MaxTextLen }

\* where the generate/judge path truncates, with the budget of each place
TruncationInputs ==
  { Application("paperContext", [value |-> t, maxChars |-> PaperChars]) :
      t \in Texts }
    \cup { Application("truncateText", [value |-> t, maxChars |-> b]) :
             t \in Texts, b \in {JudgeContextChars, JudgeOutputChars} }
    \cup { Application("toLogSnippet", [value |-> t, maxChars |-> SnippetChars]) :
             t \in Texts }

\* no run is going on
AgentIdle ==
  /\ OPENAI_API_KEY = TRUE
  /\ E2B_API_KEY = TRUE
  /\ maxIterations = 0
  /\ defaultLanguage = python3
  /\ requireSufficientOutput = TRUE
  /\ pc = "idle"
  /\ iteration = 0
  /\ steps = <<>>
  /\ previousSuggestion = Null
  /\ lastError = Null
  /\ suggestion = Null
  /\ runResult = Null
  /\ result = Null
  /\ thrown = Null
  /\ trace = <<>>
  /\ sandboxCount = 0
  /\ http = Null
  /\ runId = 1
  /\ other = Null

Idle == AgentIdle /\ WebIdle

\* the variables of the eval agent
agent == <<params, pc, iteration, steps, previousSuggestion, lastError,
           suggestion, runResult, result, thrown, trace, sandboxCount, http,
           runId, other, applied>>

Pending(fn) == applied # Null /\ applied.fn = fn /\ IsNull(applied.output)

Done(output) ==
  /\ applied' = [applied EXCEPT !.output = Some(output)]
  /\ UNCHANGED <<params, pc, iteration, steps, previousSuggestion, lastError,
                 suggestion, runResult, result, thrown, trace, sandboxCount,
                 http, runId, other, web>>

\* buildUserPrompt cuts the paper text for the generator
BuildPaperContext ==
  /\ Pending("paperContext")
  /\ Done(paperContext(applied.input.value))

\* assessOutputSufficiency cuts the paper excerpt and the program output
TruncateForJudge ==
  /\ Pending("truncateText")
  /\ Done(truncateText(applied.input.value, applied.input.maxChars))

\* runEvalAgent cuts the output it quotes in the insufficiency composite
SnippetForRetry ==
  /\ Pending("toLogSnippet")
  /\ Done(toLogSnippet(applied.input.value, applied.input.maxChars))

Applied(fns) ==
  applied # Null /\ applied.fn \in fns /\ ~IsNull(applied.output)

\* the text carries a marker that states that n characters were omitted
StatesOmitted(text, n) ==
  \E i \in DOMAIN text :
    text[i] = "\n...[truncated " \o ToString(n) \o " chars]"

\* C21 -- Truncation is lossless-prefix and explicit at every truncation
\* point: a text within the budget is returned unchanged; of a longer text
\* the first budget characters are kept and the result carries a marker
\* stating the number of omitted characters, length - budget.
C21_TruncationExplicit ==
  Applied({"paperContext", "truncateText", "toLogSnippet"}) =>
    LET value == applied.input.value
        budget == applied.input.maxChars
        out == Val(applied.output)
    IN IF Len(value) <= budget THEN out = value
       ELSE /\ SubSeq(out, 1, budget) = SubSeq(value, 1, budget)
            /\ StatesOmitted(out, Len(value) - budget)

\* ------------------------------------------------ one request per call
\* the message of the error thrown for a non-OK response
StatusMessage(op, response) ==
  LET generic ==
        <<(IF op = "generate" THEN "Code suggestion" ELSE "Output assessment")
            \o " request failed with status " \o ToString(response.status)
            \o ".">>
  IN IF IsNull(response.errorMessage) THEN generic
     ELSE OrElse(Val(response.errorMessage), generic)

\* C22 -- No built-in retry in the generator and the judge: every
\* invocation is settled by exactly one event, which carries the one
\* response of the one request made (none when the credential is missing),
\* no invocation is made twice for an iteration, and a non-OK response
\* (429, 5xx) makes the invocation throw the error of that response.
C22_NoBuiltInRetry ==
  \A e \in Events :
    trace[e].op \in {"generate", "judge"} =>
      /\ Cardinality({ f \in Events : /\ trace[f].op = trace[e].op
                                      /\ trace[f].iteration = trace[e].iteration
                                      /\ trace[f].ev = trace[e].ev }) = 1
      /\ (/\ Settles(e) /\ ~IsNull(trace[e].input)
          /\ Val(trace[e].input).status \notin 200..299)
           => /\ trace[e].ev = "throw"
              /\ trace[e].message = StatusMessage(trace[e].op, Val(trace[e].input))
              /\ e = Len(trace)
              /\ pc = "threw"

\* a 429 from the judge at the second iteration ends the run
C22_Witness ==
  /\ pc = "threw" /\ iteration = 1
  /\ Last(trace).op = "judge"
  /\ Val(Last(trace).input).status = 429
  /\ \E e \in Events : trace[e].op = "judge" /\ trace[e].ev = "return"

\* ------------------------------------------- what the executor returns
NoOutput == <<"Execution finished with no output.">>

\* the executor returned at event e, having got a sandbox of the given kind
ExecutedAs(e, kind) ==
  /\ trace[e].ev = "return" /\ trace[e].op = "execute"
  /\ ~IsNull(trace[e].input)
  /\ Val(trace[e].input).kind = kind

Joined(parts) == join(parts, <<>>)

\* the output the claim gives a finished execution, the primary text
\* result being taken as it is (asStated) or trimmed
ClaimedOutput(execution, asStated) ==
  LET text == IF IsNull(execution.text) THEN <<>> ELSE Val(execution.text)
      out == trim(Joined(execution.stdout))
      err == trim(Joined(execution.stderr))
  IN IF trim(text) # <<>> THEN (IF asStated THEN text ELSE trim(text))
     ELSE IF out # <<>> /\ err # <<>> THEN out \o <<"\n\n">> \o err
     ELSE IF out # <<>> THEN out
     ELSE IF err # <<>> THEN err
     ELSE NoOutput

FaultReported(e) ==
  LET fault == Val(trace[e].input)
      value == trace[e].value
  IN /\ ~value.success
     /\ DOMAIN value = {"success", "error"}
     /\ Contains(value.error, fault.name)
     /\ Contains(value.error, fault.value)
     /\ ~IsNull(fault.traceback) => Contains(value.error, Val(fault.traceback))

\* C23 (as stated) -- Without a fault the output is the primary text result
\* if it is non-blank, else the trimmed stdout followed by the trimmed
\* stderr (non-empty parts only), else the placeholder, never empty; with a
\* fault the result is a Failure whose error holds the fault's name, value
\* and traceback, even if output was produced.
C23_ExecutorOutputAsStated ==
  \A e \in Events :
    /\ ExecutedAs(e, "done") =>
         /\ trace[e].value = Success(ClaimedOutput(Val(trace[e].input), TRUE))
         /\ Len(trace[e].value.output) > 0
    /\ ExecutedAs(e, "fault") => FaultReported(e)

\* C23 (amended) -- As stated, the primary text result being returned
\* trimmed of leading and trailing whitespace.
C23_ExecutorOutput ==
  \A e \in Events :
    /\ ExecutedAs(e, "done") =>
         /\ trace[e].value = Success(ClaimedOutput(Val(trace[e].input), FALSE))
         /\ Len(trace[e].value.output) > 0
    /\ ExecutedAs(e, "fault") => FaultReported(e)

\* a text result ending in a newline, returned without it
C23_Witness ==
  \E e \in Events :
    /\ ExecutedAs(e, "done")
    /\ Val(trace[e].input).text = Some(<<"ok", "\n">>)
    /\ Val(trace[e].input).stdout # <<>>
    /\ trace[e].value = Success(<<"ok">>)

\* --------------------------------------------- what an iteration executes
\* the suggestion the generator returned in iteration n
Generated(n) ==
  LET e == CHOOSE f \in Events : /\ trace[f].op = "generate"
                                 /\ trace[f].ev = "return"
                                 /\ trace[f].iteration = n
  IN trace[e].value

\* C24 -- Each iteration executes exactly the code of the suggestion the
\* generator returned in that iteration, right after it returned, in the
\* suggestion's language if it has one and in defaultLanguage otherwise; the
\* step recorded for the iteration holds that same suggestion.
C24_ExecutesOwnSuggestion ==
  /\ \A e \in Events :
       (trace[e].ev = "call" /\ trace[e].op = "execute") =>
          /\ e > 1
          /\ trace[e - 1].op = "generate" /\ trace[e - 1].ev = "return"
          /\ trace[e - 1].iteration = trace[e].iteration
          /\ trace[e].args.code = trace[e - 1].value.code
          /\ trace[e].args.language =
               IF IsNull(trace[e - 1].value.language) THEN defaultLanguage
               ELSE Val(trace[e - 1].value.language)
  /\ \A i \in DOMAIN steps :
       /\ steps[i].suggestion = Generated(i - 1)
       /\ steps[i].iteration = i - 1

\* the second iteration runs its own code in its own language, not the
\* first iteration's
C24_Witness ==
  /\ Len(steps) >= 1 /\ steps[1].suggestion.code = <<"c1">>
  /\ \E e \in Events :
       /\ trace[e].ev = "call" /\ trace[e].op = "execute"
       /\ trace[e].iteration = 1
       /\ trace[e].args.code = <<"c2">>
       /\ trace[e].args.language = <<"P", "y">>
  /\ defaultLanguage = <<"R">>

\* ------------------------------------- what is carried between iterations
\* C25 -- Carried state: the generator call of iteration 0 gets no previous
\* suggestion and no lastError and is told it is the first attempt; the
\* generator call of every iteration n > 0 gets as previousSuggestion the
\* suggestion recorded in steps[n-1] and as lastError the non-empty error
\* context of steps[n-1] (its execution error or its insufficiency
\* composite), and its prompt carries that code and that error.
C25_CarriedState ==
  \A e \in Events :
    (trace[e].ev = "call" /\ trace[e].op = "generate") =>
      LET n == trace[e].iteration
          args == trace[e].args
          parts == userPromptParts(args.previousSuggestion, args.lastError,
                                   args.iteration)
      IN /\ args.iteration = n
         /\ IF n = 0
              THEN /\ IsNull(args.previousSuggestion)
                   /\ IsNull(args.lastError)
                   /\ parts = <<[part |-> "first attempt", text |-> <<>>]>>
              ELSE /\ Len(steps) >= n
                   /\ steps[n].iteration = n - 1
                   /\ args.previousSuggestion = Some(steps[n].suggestion)
                   /\ args.lastError = Some(ErrorContextOf(steps[n]))
                   /\ Len(Val(args.lastError)) > 0
                   /\ parts =
                        <<[part |-> "refinement", text |-> <<>>],
                          [part |-> "previous code",
                           text |-> steps[n].suggestion.code],
                          [part |-> "last error",
                           text |-> ErrorContextOf(steps[n])]>>

\* the third generator call carries the second iteration's code and
\* insufficiency, not the first iteration's code and execution error
C25_Witness ==
  /\ pc = "generate" /\ iteration = 2
  /\ ~steps[1].runResult.success /\ steps[2].runResult.success
  /\ steps[1].suggestion # steps[2].suggestion
  /\ Last(trace).args.previousSuggestion = Some(steps[2].suggestion)
  /\ Last(trace).args.lastError # Some(steps[1].runResult.error)

\* ------------------------------------------- which fragment is parsed
\* getCodeSuggestion reads the payload of an OK response
ParseSuggestion ==
  /\ Pending("getCodeSuggestion")
  /\ Done(getCodeSuggestion(TRUE, Response(200, Null, candidatesOf(applied.input))))

RECURSIVE Flat(_)
Flat(seqs) == IF Len(seqs) = 0 THEN <<>> ELSE Head(seqs) \o Flat(Tail(seqs))

\* the fragments of a payload in the order of the claim: output_text, then
\* of each content block in response order its text and then its json; each
\* with whether it has the shape { ... } and what parsing it gives
FragmentsInOrder(payload) ==
  LET ofText(t) ==
        IF IsNull(t) THEN [shaped |-> FALSE, parsed |-> Null]
        ELSE [shaped |-> ~Val(t).blank /\ Val(t).braces, parsed |-> Val(t).parsed]
      ofJson(j) ==
        IF IsNull(j) THEN [shaped |-> FALSE, parsed |-> Null]
        ELSE [shaped |-> ~Val(j).isArray, parsed |-> Some(Val(j).value)]
      blocks == IF IsNull(payload.output) THEN <<>> ELSE Flat(Val(payload.output))
      pairs == [b \in DOMAIN blocks |->
                  <<ofText(blocks[b].text), ofJson(blocks[b].json)>>]
  IN <<ofText(payload.output_text)>> \o Flat(pairs)

\* C26 -- JSON extraction: of the fragments in order (output_text, then each
\* content block's text and then its json) the first that starts with "{"
\* and ends with "}" is the one parsed; the call fails if there is none, and
\* fails if that one does not parse, whatever comes after it.
C26_FirstShapedFragment ==
  Applied({"getCodeSuggestion"}) =>
    LET fragments == FragmentsInOrder(applied.input)
        shaped == { i \in DOMAIN fragments : fragments[i].shaped }
        out == Val(applied.output)
    IN IF shaped = {}
         THEN /\ out.threw
              /\ out.message =
                   <<"Code suggestion response did not include JSON output.">>
       ELSE LET first == CHOOSE i \in shaped : \A j \in shaped : i <= j
            IN IF IsNull(fragments[first].parsed)
                 THEN out.threw /\ out.message = <<"SyntaxError">>
               ELSE /\ ~out.threw
                    /\ out.value.code = Val(fragments[first].parsed).code.str

\* an unparseable { ... } in the first block's text stops the call although
\* the same block's json and the second block would parse
C26_Witness ==
  /\ Applied({"getCodeSuggestion"})
  /\ Val(applied.output).threw
  /\ Val(applied.output).message = <<"SyntaxError">>
  /\ LET fragments == FragmentsInOrder(applied.input)
     IN /\ Len(fragments) = 5
        /\ ~fragments[1].shaped
        /\ fragments[2].shaped /\ IsNull(fragments[2].parsed)
        /\ fragments[3].shaped /\ fragments[4].shaped

\* ------------------------------------------ the shape of a suggestion
\* the JSON objects a model may answer with, field by field
SuggestionJsonInputs ==
  { Application("CodeSuggestionJson", CodeJson(code, language, explanation)) :
      code \in { JUndefined, JNumber, JString(<<>>), JString(<<" ">>),
                 JString(<<"c">>) },
      language \in { JUndefined, JNumber, JString(<<>>), JString(<<" ", "\n">>),
                     JString(<<" ", "P", "y", "\n">>) },
      explanation \in { JUndefined, JNumber, JString(<<>>), JString(<<"\n">>),
                        JString(<<"\n", "why", " ", "so", " ">>) } }

\* getCodeSuggestion checks and shapes the object it parsed
ShapeSuggestion ==
  /\ Pending("CodeSuggestionJson")
  /\ Done(getCodeSuggestion(TRUE,
            Response(200, Null, <<Candidate(TRUE, Some(applied.input))>>)))

\* the optional field is the trimmed string, or absent when there is none
TrimmedOrAbsent(field, raw) ==
  /\ IF raw.type = "string" /\ trim(raw.str) # <<>>
       THEN field = Some(trim(raw.str))
       ELSE IsNull(field)
  /\ ~IsNull(field) =>
       /\ Len(Val(field)) > 0
       /\ Val(field)[1] \notin Whitespace
       /\ Val(field)[Len(Val(field))] \notin Whitespace

\* C27 -- A parsed response whose code is missing, empty or not a string is
\* a hard failure; otherwise the CodeSuggestion returned has that non-empty
\* code, unchanged, and language and explanation trimmed, absent (never an
\* empty or blank string) when missing, not strings or blank.
C27_SuggestionShape ==
  Applied({"CodeSuggestionJson"}) =>
    LET parsed == applied.input
        out == Val(applied.output)
    IN IF parsed.code.type = "string" /\ parsed.code.str # <<>>
         THEN /\ ~out.threw
              /\ DOMAIN out.value = {"code", "language", "explanation"}
              /\ out.value.code = parsed.code.str
              /\ Len(out.value.code) > 0
              /\ TrimmedOrAbsent(out.value.language, parsed.language)
              /\ TrimmedOrAbsent(out.value.explanation, parsed.explanation)
         ELSE /\ out.threw
              /\ out.message =
                   <<"Code suggestion JSON did not include a valid 'code' field.">>

\* a blank language becomes absent, a padded explanation is trimmed
C27_Witness ==
  /\ Applied({"CodeSuggestionJson"})
  /\ applied.input.language = JString(<<" ", "\n">>)
  /\ applied.input.explanation = JString(<<"\n", "why", " ", "so", " ">>)
  /\ ~Val(applied.output).threw
  /\ IsNull(Val(applied.output).value.language)
  /\ Val(applied.output).value.explanation = Some(<<"why", " ", "so">>)

\* ----------------------------------------- the shape of an assessment
\* an array one entry longer than the limit
LongList == [i \in 1..(MaxListItems + 1) |-> JString(<<"item " \o ToString(i)>>)]

ListInputs ==
  { Null, Some(<<>>), Some(LongList),
    Some(<<JString(<<"seed">>), JString(<<>>), JString(<<"env">>)>>),
    Some(<<JString(<<"seed">>), JNumber, JNull, JString(<<"env">>)>>) }

\* the JSON objects a judge may answer with, field by field
AssessmentJsonInputs ==
  { Application("OutputAssessment",
                AssessmentJson(sufficient, missing, rationale, requested)) :
      sufficient \in BOOLEAN,
      missing \in ListInputs,
      rationale \in { JUndefined, JNumber, JString(<<>>), JString(<<"thin">>) },
      requested \in ListInputs }

\* assessOutputSufficiency shapes the object it parsed
ShapeAssessment ==
  /\ Pending("OutputAssessment")
  /\ Done(assessOutputSufficiency(TRUE,
            Response(200, Null, <<Candidate(TRUE, Some(applied.input))>>)))

\* the entries of a list that are non-empty strings, in order
RECURSIVE StringEntries(_)
StringEntries(items) ==
  IF Len(items) = 0 THEN <<>>
  ELSE IF Head(items).type = "string" /\ Head(items).str # <<>>
    THEN <<Head(items).str>> \o StringEntries(Tail(items))
  ELSE StringEntries(Tail(items))

\* the list the claim gives for an upstream value
ClaimedList(items) ==
  IF IsNull(items) THEN <<>>
  ELSE SubSeq(StringEntries(Val(items)), 1,
              Min(20, Len(StringEntries(Val(items)))))

\* C28 -- Every OutputAssessment has missing and requested_changes of at
\* most 20 entries: the first 20, in order, of the upstream entries that are
\* non-empty strings, non-string and falsy entries being dropped; a value
\* that is not an array gives the empty sequence and a rationale that is
\* not a string gives the empty string.
C28_AssessmentShape ==
  Applied({"OutputAssessment"}) =>
    LET parsed == applied.input
        out == Val(applied.output)
    IN /\ ~out.threw
       /\ Len(out.value.missing) <= 20
       /\ Len(out.value.requested_changes) <= 20
       /\ out.value.missing = ClaimedList(parsed.missing)
       /\ out.value.requested_changes = ClaimedList(parsed.requested_changes)
       /\ out.value.rationale =
            IF parsed.rationale.type = "string" THEN parsed.rationale.str
            ELSE <<>>

\* ------------------------------------------------ the terminating step
\* the step ends the run: a Success execution that was not judged, or that
\* the judge found sufficient
Terminating(step) ==
  /\ step.runResult.success
  /\ IsNull(step.outputAssessment) \/ Val(step.outputAssessment).sufficient

\* the step sends the loop round again: an execution Failure, or a Success
\* that the judge found insufficient
Retried(step) ==
  \/ ~step.runResult.success /\ IsNull(step.outputAssessment)
  \/ /\ step.runResult.success
     /\ ~IsNull(step.outputAssessment)
     /\ ~Val(step.outputAssessment).sufficient

\* C31 -- In any result of runEvalAgent a terminating step (a Success
\* execution with no assessment, sufficiency being disabled, or with
\* sufficient=true) can only be the last element of steps, there is one if
\* and only if the result is Success, and every other step is an execution
\* Failure or a Success judged insufficient.
C31_TerminatingStepLast ==
  HasReturned =>
    LET history == TheResult.steps
    IN /\ \A k \in 1..Len(history) :
            /\ Terminating(history[k]) => k = Len(history)
            /\ ~Terminating(history[k]) => Retried(history[k])
            /\ (history[k].runResult.success /\ IsNull(history[k].outputAssessment))
                 => ~requireSufficientOutput
       /\ TheResult.success <=>
            (\E k \in 1..Len(history) : Terminating(history[k]))

\* a Success whose last step was judged sufficient after an insufficient one
C31_Witness ==
  /\ HasReturned
  /\ TheResult.success
  /\ Len(TheResult.steps) >= 2
  /\ Terminating(Last(TheResult.steps))
  /\ \E k \in 1..(Len(TheResult.steps) - 1) :
       /\ TheResult.steps[k].runResult.success
       /\ ~Val(TheResult.steps[k].outputAssessment).sufficient

\* ------------------------------------------------------------ termination
\* maxIterations = Infinity (JSON.parse gives it for 1e999): the loop test
\* passes for every iteration count, here for every count up to MaxIter + 1
Unbounded == Den * (MaxIter + 2)

\* runEvalAgent called with any maxIterations, every call it awaits settling
\* sooner or later
InitLive ==
  /\ OPENAI_API_KEY = TRUE
  /\ E2B_API_KEY = TRUE
  /\ \E m \in MaxIterationsInputs \cup {Some(Unbounded)} :
       maxIterations = Default(m, DefaultMaxIterations * Den)
  /\ defaultLanguage = python3
  /\ \E r \in RequireSufficientOutputInputs :
       requireSufficientOutput = Default(r, TRUE)
  /\ pc = "loop"
  /\ iteration = 0
  /\ steps = <<>>
  /\ previousSuggestion = Null
  /\ lastError = Null
  /\ suggestion = Null
  /\ runResult = Null
  /\ result = Null
  /\ thrown = Null
  /\ trace = <<>>
  /\ sandboxCount = 0
  /\ http = Null
  /\ runId = 1
  /\ other = Null
  /\ applied = Null
  /\ WebIdle

\* the loop is followed for MaxIter + 1 passes and no further
NextLive ==
  \/ iteration <= MaxIter /\ LoopHead
  \/ \E response \in FewGenResponses : GenerateReturn(response)
  \/ \E sandbox \in FewSandboxes : ExecuteReturn(sandbox)
  \/ \E response \in FewJudgeResponses : JudgeReturn(response)

SpecLive == InitLive /\ [][NextLive]_vars /\ WF_vars(NextLive)

CallsOf(op) ==
  Cardinality({ e \in Events : trace[e].ev = "call" /\ trace[e].op = op })

Settled == pc \in {"returned", "threw"}

\* C32 -- If every generator, executor and judge call returns or throws,
\* runEvalAgent eventually returns or throws, after at most maxIterations
\* generator calls, executor calls and judge calls.
C32_Termination ==
  /\ <>Settled
  /\ [](\A op \in {"generate", "execute", "judge"} :
          CallsOf(op) * Den <= IF maxIterations < 0 THEN 0 ELSE maxIterations)

\* what does hold: a run with a finite maxIterations settles, after at most
\* as many calls of each kind as the loop test admits passes
FiniteRunsSettle ==
  /\ (maxIterations # Unbounded) => <>Settled
  /\ [](maxIterations # Unbounded =>
          \A op \in {"generate", "execute", "judge"} :
            CallsOf(op) <= IterationBudget)

\* the termination half of C32 for maxIterations = Infinity; it fails, the
\* passes go on for as long as the executions fail
UnboundedRunSettles == (maxIterations = Unbounded) => <>Settled

\* ------------------------------------------- the executor does not retry
ExecuteCalls ==
  { e \in 1..Len(trace) : trace[e].ev = "call" /\ trace[e].op = "execute" }
ExecuteReturns ==
  { e \in 1..Len(trace) : trace[e].ev = "return" /\ trace[e].op = "execute" }

\* the sandbox service failed the call: no credential, no sandbox, a
\* rejected run or a fault of the program
ExecutionFailed(e) ==
  \/ IsNull(trace[e].input)
  \/ Val(trace[e].input).kind \in {"createThrows", "throws", "fault"}

\* C30 -- One runInE2b call creates at most one sandbox and runs the code at
\* most once, and every provisioning or execution failure comes back as the
\* Failure result of that same call: the executor neither retries nor throws.
C30_ExecutorNoRetry ==
  /\ \A e \in ExecuteReturns :
       /\ trace[e].created <= 1
       /\ trace[e].ran <= 1
       /\ e - 1 \in ExecuteCalls
       /\ trace[e - 1].iteration = trace[e].iteration
       /\ ExecutionFailed(e) =>
            /\ ~trace[e].value.success
            /\ DOMAIN trace[e].value = {"success", "error"}
            /\ Len(trace[e].value.error) > 0
  /\ \A e \in 1..Len(trace) :
       ~(trace[e].ev = "throw" /\ trace[e].op = "execute")
  /\ sandboxCount <= Cardinality(ExecuteCalls)
  /\ Cardinality(ExecuteReturns) <= Cardinality(ExecuteCalls)

\* a run that the sandbox rejected came back as a Failure, one sandbox used
C30_Witness ==
  /\ \E e \in ExecuteReturns :
       /\ ExecutedAs(e, "throws")
       /\ ~trace[e].value.success
       /\ trace[e].created = 1
       /\ trace[e].ran = 1
  /\ sandboxCount = 1

\* ------------------------------------------ the executor never throws
\* requests whose defaultLanguage is absent, a string, or a number
LanguageBodies ==
  { BodyObject(JString(<<" ", "t">>), maxIter, language, require) :
      maxIter \in { Some(Den), Some(2 * Den) },
      language \in { Null, Some(<<"R">>), Some(NumberLanguage) },
      require \in { Null, Some(FALSE) } }

LanguageSandboxes ==
  FewSandboxes \cup { SandboxCreateThrows(<<"unauthorized">>),
                      SandboxThrows(<<"timeout">>) }

NextLang ==
  \/ \E body \in LanguageBodies : POST(body)
  \/ LoopHead
  \/ \E response \in FewGenResponses : GenerateReturn(response)
  \/ \E sandbox \in LanguageSandboxes : ExecuteReturn(sandbox)
  \/ \E response \in FewJudgeResponses : JudgeReturn(response)
  \/ PostSettle

SpecLang == InitRoute /\ [][NextLang]_vars

\* a fault of the sandbox comes back as a Failure and the loop goes on
SandboxFaultsAbsorbed ==
  \A e \in ExecuteReturns :
    ExecutionFailed(e) =>
      /\ ~trace[e].value.success
      /\ e < Len(trace) =>
           /\ trace[e + 1].ev = "call" /\ trace[e + 1].op = "generate"
           /\ trace[e + 1].iteration = trace[e].iteration + 1

\* C33 -- runInE2b never throws: for every code and language the
\* orchestrator can pass, a defaultLanguage taken unvalidated from the
\* request body included, and every fault of the sandbox, the call resolves
\* to a Failure result, and the loop goes on to the next iteration instead
\* of aborting the run.
C33_ExecutorNeverThrows ==
  /\ \A e \in Events : ~(trace[e].ev = "throw" /\ trace[e].op = "execute")
  /\ SandboxFaultsAbsorbed

\* ------------------------------------------- the feasibility request
\* for (let attempt = 0; attempt < 3; attempt += 1)
MaxAttempts == 3
\* attempt === 2
LastAttempt == 2
\* setTimeout(resolve, 350 * (attempt + 1))
BackoffMs == 350

\* what one fetch of the feasibility model comes to: fetch rejects,
\* response.json() rejects, or a JSON payload with a status
FetchRejected == [kind |-> "rejected", status |-> 0, message |-> Null,
                  requestId |-> Null, payload |-> "none"]
NotJson(status) == [kind |-> "notJson", status |-> status, message |-> Null,
                    requestId |-> Null, payload |-> "none"]
JsonResponse(status, message, requestId, payload) ==
  [kind |-> "json", status |-> status, message |-> message,
   requestId |-> requestId, payload |-> payload]

\* response.ok
okStatus(status) == status \in 200..299

\* const shouldRetry = response.status >= 500 || response.status === 429
shouldRetry_AnyFailure(status) == TRUE
shouldRetry(status) == status >= 500 \/ status = 429

FeasibilityFailed == <<"Feasibility model request failed.">>

\* lastError = `${message} (status: ${response.status})`
failureMessage(response) ==
  (IF IsNull(response.message) THEN FeasibilityFailed ELSE Val(response.message))
    \o (IF IsNull(response.requestId) \/ Val(response.requestId) = <<>>
          THEN <<>>
          ELSE <<" (request_id: ">> \o Val(response.requestId) \o <<")">>)
    \o <<" (status: ", ToString(response.status), ")">>

FeasibilityResponses ==
  { FetchRejected, NotJson(200), NotJson(502) }
    \cup { JsonResponse(status, Null, Null, payload) :
             status \in {200, 204},
             payload \in {"null", "noText", "badJson", "result"} }
    \cup { JsonResponse(status, message, requestId, "error") :
             status \in {302, 400, 429, 500, 503},
             message \in {Null, Some(<<"overloaded">>)},
             requestId \in {Null, Some(<<"req_1">>)} }

InitFeasibility ==
  /\ AgentIdle
  /\ applied = Null
  /\ feasibility = [pc |-> "fetch", attempt |-> 0, requests |-> <<>>,
                    delays |-> <<>>, payload |-> Null,
                    lastError |-> FeasibilityFailed, thrown |-> Null,
                    result |-> Null]
  /\ sqlEnv = Null /\ db = Null /\ handlers = Null

\* one pass of the loop: the request, response.json(), and what follows
FeasibilityAttempt(response) ==
  /\ feasibility # Null
  /\ feasibility.pc = "fetch"
  /\ feasibility.attempt < MaxAttempts
  /\ LET f == [feasibility EXCEPT !.requests = Append(@, response)]
     IN feasibility' =
          IF response.kind = "rejected"
            THEN [f EXCEPT !.pc = "threw", !.thrown = Some(<<"fetch failed">>)]
          ELSE IF response.kind = "notJson"
            THEN [f EXCEPT !.pc = "threw",
                           !.thrown = Some(<<"Unexpected token in JSON">>)]
          ELSE IF okStatus(response.status)
            THEN [f EXCEPT !.pc = "parse", !.payload = Some(response.payload)]
          ELSE IF ~shouldRetry(response.status) \/ f.attempt = LastAttempt
            THEN [f EXCEPT !.pc = "threw",
                           !.lastError = failureMessage(response),
                           !.thrown = Some(failureMessage(response))]
          ELSE [f EXCEPT !.lastError = failureMessage(response),
                         !.delays = Append(@, BackoffMs * (f.attempt + 1)),
                         !.attempt = @ + 1]
  /\ UNCHANGED <<agent, sqlEnv, db, handlers>>

\* after the loop: the payload of the OK response is read
FeasibilityParse ==
  /\ feasibility # Null
  /\ feasibility.pc = "parse"
  /\ LET payload == Val(feasibility.payload)
     IN feasibility' =
          IF payload = "null"
            THEN [feasibility EXCEPT !.pc = "threw",
                                     !.thrown = Some(feasibility.lastError)]
          ELSE IF payload = "noText"
            THEN [feasibility EXCEPT !.pc = "threw", !.thrown =
                    Some(<<"Feasibility response did not include JSON output.">>)]
          ELSE IF payload = "badJson"
            THEN [feasibility EXCEPT !.pc = "threw", !.thrown =
                    Some(<<"Feasibility response JSON could not be parsed.">>)]
          ELSE [feasibility EXCEPT !.pc = "returned", !.result = Some(payload)]
  /\ UNCHANGED <<agent, sqlEnv, db, handlers>>

NextFeasibility ==
  \/ \E response \in FeasibilityResponses : FeasibilityAttempt(response)
  \/ FeasibilityParse

SpecFeasibility == InitFeasibility /\ [][NextFeasibility]_vars

\* the response is a retryable failure: a JSON payload with status >= 500 or 429
RetryableFailure(response) ==
  /\ response.kind = "json"
  /\ response.status >= 500 \/ response.status = 429

\* the response is a failure with any other status
OtherFailure(response) ==
  /\ response.kind = "json"
  /\ response.status \notin 200..299
  /\ ~(response.status >= 500 \/ response.status = 429)

\* C34 -- The feasibility check retries its model request with backoff only
\* on status >= 500 or 429: it makes at most 3 requests, stops at the first
\* OK response, fails after one request on any other non-OK status, fails
\* after a third retryable failure with the message of that last attempt,
\* and never reads a payload from a non-OK response.
C34_FeasibilityRetry ==
  LET f == feasibility
      n == Len(f.requests)
  IN /\ n <= 3
     /\ \A k \in 1..(n - 1) : RetryableFailure(f.requests[k])
     /\ Len(f.delays) = (IF f.pc = "fetch" THEN n ELSE n - 1)
     /\ \A k \in 1..Len(f.delays) : f.delays[k] = 350 * k
     /\ f.pc = "fetch" => \A k \in 1..n : RetryableFailure(f.requests[k])
     /\ (n > 0 /\ OtherFailure(Last(f.requests))) =>
          /\ f.pc = "threw"
          /\ f.thrown = Some(failureMessage(Last(f.requests)))
     /\ (n = 3 /\ RetryableFailure(f.requests[3])) =>
          /\ f.pc = "threw"
          /\ f.thrown = Some(failureMessage(f.requests[3]))
     /\ (n > 0 /\ Last(f.requests).kind = "json"
               /\ Last(f.requests).status \in 200..299) =>
          /\ f.pc \in {"parse", "returned", "threw"}
          /\ f.payload = Some(Last(f.requests).payload)
     /\ ~IsNull(f.payload) =>
          /\ Last(f.requests).kind = "json"
          /\ Last(f.requests).status \in 200..299
     /\ ~IsNull(f.result) => ~IsNull(f.payload)

\* the third request failed with 503 after a 500 and a 429
C34_Witness ==
  /\ Len(feasibility.requests) = 3
  /\ feasibility.requests[1].status = 500
  /\ feasibility.requests[2].status = 429
  /\ feasibility.requests[3].status = 503
  /\ feasibility.delays = <<350, 700>>
  /\ feasibility.pc = "threw"

\* ------------------------------------------------ the database clients
\* what the process holds: its environment, global.__sql__ and
\* global.__supabase_admin__, the clients constructed, and what each call of
\* getSql / createAdminClient came to
InitClients ==
  /\ AgentIdle
  /\ applied = Null
  /\ feasibility = Null /\ db = Null /\ handlers = Null
  /\ \E production \in BOOLEAN, url \in BOOLEAN, supabase \in BOOLEAN :
       sqlEnv = [production |-> production, DATABASE_URL |-> url,
                 SUPABASE |-> supabase, sql |-> Null, admin |-> Null,
                 constructed |-> 0, calls |-> <<>>]

ClientCall(fn, threw, client) == [fn |-> fn, threw |-> threw, client |-> client]

\* if (process.env.NODE_ENV !== "production") global.__sql__ = sql
cachedSql(production, sql) == IF production THEN Null ELSE Some(sql)

\* getSql()
GetSql ==
  /\ sqlEnv # Null
  /\ Len(sqlEnv.calls) < MaxCalls
  /\ IF ~sqlEnv.DATABASE_URL
       THEN sqlEnv' = [sqlEnv EXCEPT
                         !.calls = Append(@, ClientCall("getSql", TRUE, 0))]
       ELSE LET fresh == IsNull(sqlEnv.sql)
                sql == IF fresh THEN sqlEnv.constructed + 1 ELSE Val(sqlEnv.sql)
            IN sqlEnv' = [sqlEnv EXCEPT
                 !.constructed = IF fresh THEN @ + 1 ELSE @,
                 !.sql = IF IsNull(cachedSql(sqlEnv.production, sql))
                           THEN @ ELSE cachedSql(sqlEnv.production, sql),
                 !.calls = Append(@, ClientCall("getSql", FALSE, sql))]
  /\ UNCHANGED <<agent, feasibility, db, handlers>>

\* createAdminClient()
CreateAdminClient ==
  /\ sqlEnv # Null
  /\ Len(sqlEnv.calls) < MaxCalls
  /\ IF ~sqlEnv.SUPABASE
       THEN sqlEnv' = [sqlEnv EXCEPT
                         !.calls = Append(@, ClientCall("createAdminClient", TRUE, 0))]
       ELSE LET fresh == IsNull(sqlEnv.admin)
                client == IF fresh THEN sqlEnv.constructed + 1
                          ELSE Val(sqlEnv.admin)
            IN sqlEnv' = [sqlEnv EXCEPT
                 !.constructed = IF fresh THEN @ + 1 ELSE @,
                 !.admin = Some(client),
                 !.calls = Append(@, ClientCall("createAdminClient", FALSE, client))]
  /\ UNCHANGED <<agent, feasibility, db, handlers>>

NextClients == GetSql \/ CreateAdminClient

SpecClients == InitClients /\ [][NextClients]_vars

\* the clients that the calls of fn returned
ClientsOf(fn) ==
  { sqlEnv.calls[k].client :
      k \in { j \in 1..Len(sqlEnv.calls) :
                sqlEnv.calls[j].fn = fn /\ ~sqlEnv.calls[j].threw } }

\* C35 -- The database client is a process-wide lazily-initialised
\* singleton: after any sequence of getSql calls in one process at most one
\* client has been constructed and every call has returned that instance.
C35_SingleClient == Cardinality(ClientsOf("getSql")) <= 1

\* what does hold: outside production getSql returns one instance, and
\* createAdminClient does so everywhere
SingleClientWhereCached ==
  /\ ~sqlEnv.production => Cardinality(ClientsOf("getSql")) <= 1
  /\ Cardinality(ClientsOf("createAdminClient")) <= 1

\* ------------------------------------------- projects and their files
\* a row of projects; the results carry the id of the file they were
\* computed from
ProjectRow(primary, fstatus, fresult, mstatus, merror, mresult) ==
  [primary_file_id |-> primary, feasibility_status |-> fstatus,
   feasibility_result_json |-> fresult, method_status |-> mstatus,
   method_error |-> merror, method_result_json |-> mresult]

\* insert into projects (title, updated_at): the column defaults
NewProject == ProjectRow(0, Null, Null, "idle", Null, Null)

\* a row of project_files (deleted: the row is gone)
FileRow(project, primary) ==
  [deleted |-> FALSE, project_id |-> project, is_primary |-> primary]

\* what a model call on the text of file f gives
ResultFrom(f) == [from |-> f]

ProjectExists(d, project) == project \in 1..Len(d.projects)

\* where project_id = ${projectId} and is_primary = true
PrimaryFiles(d, project) ==
  { f \in 1..Len(d.files) :
      /\ ~d.files[f].deleted
      /\ d.files[f].project_id = project
      /\ d.files[f].is_primary }

\* project_id references projects(id); project_single_primary_idx is unique
\* on project_files(project_id) where is_primary = true
insertAllowed(d, project, primary) ==
  /\ ProjectExists(d, project)
  /\ primary => PrimaryFiles(d, project) = {}

insertFile(d, project, primary) ==
  [d EXCEPT !.files = Append(@, FileRow(project, primary))]

\* update project_files set is_primary = false
\* where project_id = ${projectId} and is_primary = true
demotePrimary(d, project) ==
  [d EXCEPT !.files =
     [f \in 1..Len(d.files) |->
        IF f \in PrimaryFiles(d, project)
          THEN [d.files[f] EXCEPT !.is_primary = FALSE]
          ELSE d.files[f]]]

\* update projects set ... where id = ${projectId}
updateProject(d, project, row) ==
  IF ProjectExists(d, project)
    THEN [d EXCEPT !.projects[project] = row]
    ELSE d

\* what replace_primary writes to the project
replaced(row, file) == ProjectRow(file, Null, Null, "idle", Null, Null)

\* what POST /api/method writes when it starts, succeeds, fails
methodRunning_Skipped(row) == row
methodRunning(row) ==
  [row EXCEPT !.method_status = "running", !.method_error = Null]
methodReady(row, synthesis) ==
  [row EXCEPT !.method_status = "ready", !.method_error = Null,
              !.method_result_json = Some(synthesis)]
methodFailed(row, message) ==
  [row EXCEPT !.method_status = "failed", !.method_error = Some(message)]

\* what POST /api/feasibility writes
feasibilityDone(row, check) ==
  [row EXCEPT !.feasibility_status = Some("yes"),
              !.feasibility_result_json = Some(check)]

\* a request being served: where it stands, what it read, the rows it wrote
Handler(kind, project, file, at, status) ==
  [kind |-> kind, project |-> project, file |-> file, pc |-> at,
   status |-> status, read |-> 0, error |-> Null, log |-> <<>>]

\* the requests: uploads by action, DELETE of a file, POST /api/method and
\* POST /api/feasibility (project 0: no projectId in the body; project -1:
\* an id that no project has)
Requests ==
  { [kind |-> "create_project", project |-> 0, file |-> 0] }
    \cup { [kind |-> k, project |-> project, file |-> 0] :
             k \in {"replace_primary", "add_subpdf"}, project \in {-1, 1, 2} }
    \cup { [kind |-> "delete", project |-> 0, file |-> f] : f \in 1..3 }
    \cup { [kind |-> k, project |-> project, file |-> 0] :
             k \in {"method", "feasibility"}, project \in {-1, 0, 1, 2} }

\* ids are generated by the database (gen_random_uuid): a client can name a
\* project only once its create_project upload has been answered, and a
\* file only if it is a file of such a project
KnownProject(project) ==
  \/ project < 1
  \/ /\ ProjectExists(db, project)
     /\ \A h \in 1..Len(handlers) :
          (handlers[h].kind = "create_project" /\ handlers[h].project = project)
            => handlers[h].pc = "done"

Known(request) ==
  IF request.kind = "delete"
    THEN /\ request.file \in 1..Len(db.files)
         /\ KnownProject(db.files[request.file].project_id)
    ELSE KnownProject(request.project)

\* the first await of each handler
FirstStep(request) ==
  CASE request.kind = "create_project" -> "insertProject"
    [] request.kind = "replace_primary" -> "demote"
    [] request.kind = "add_subpdf" -> "insertFile"
    [] request.kind = "delete" -> "select"
    [] request.kind = "method" -> "running"
    [] request.kind = "feasibility" -> "select"

\* a request arrives; without the projectId it needs it is answered 400
Receive(request) ==
  /\ Len(handlers) < MaxRequests
  /\ Known(request)
  /\ handlers' = Append(handlers,
       IF request.kind # "create_project" /\ request.kind # "delete"
            /\ request.project = 0
         THEN Handler(request.kind, 0, 0, "done", 400)
         ELSE Handler(request.kind, request.project, request.file,
                      FirstStep(request), 0))
  /\ UNCHANGED <<agent, feasibility, sqlEnv, db>>

\* the same, the server taking one request at a time
ReceiveInTurn(request) ==
  /\ \A h \in 1..Len(handlers) : handlers[h].pc = "done"
  /\ Len(handlers) < MaxTurns
  /\ Known(request)
  /\ handlers' = Append(handlers,
       IF request.kind # "create_project" /\ request.kind # "delete"
            /\ request.project = 0
         THEN Handler(request.kind, 0, 0, "done", 400)
         ELSE Handler(request.kind, request.project, request.file,
                      FirstStep(request), 0))
  /\ UNCHANGED <<agent, feasibility, sqlEnv, db>>

At(h, kind, at) ==
  /\ h \in 1..Len(handlers)
  /\ handlers[h].kind = kind
  /\ handlers[h].pc = at

\* the handler goes on to its next await, or answers
Goes(h, fields) ==
  /\ handlers' = [handlers EXCEPT ![h] = fields]
  /\ UNCHANGED <<agent, feasibility, sqlEnv>>

Answered(handler, status) == [handler EXCEPT !.pc = "done", !.status = status]

\* the row of the handler's project as the write left it (none: no such row)
Logged(handler, d) ==
  IF ProjectExists(d, handler.project)
    THEN [handler EXCEPT !.log = Append(@, d.projects[handler.project])]
    ELSE handler

\* create_project: insert into projects ... returning id
CreateInsertProject(h) ==
  /\ At(h, "create_project", "insertProject")
  /\ db' = [db EXCEPT !.projects = Append(@, NewProject)]
  /\ Goes(h, [handlers[h] EXCEPT !.pc = "insertFile",
                                 !.project = Len(db.projects) + 1])

\* create_project: insert into project_files (..., is_primary = true)
CreateInsertFile(h) ==
  /\ At(h, "create_project", "insertFile")
  /\ IF insertAllowed(db, handlers[h].project, TRUE)
       THEN /\ db' = insertFile(db, handlers[h].project, TRUE)
            /\ Goes(h, [handlers[h] EXCEPT !.pc = "setPrimary",
                                           !.file = Len(db.files) + 1])
       ELSE /\ UNCHANGED db
            /\ Goes(h, Answered(handlers[h], 500))

\* create_project: update projects set primary_file_id
CreateSetPrimary(h) ==
  /\ At(h, "create_project", "setPrimary")
  /\ LET project == handlers[h].project
     IN /\ db' = updateProject(db, project,
                   [db.projects[project] EXCEPT
                      !.primary_file_id = handlers[h].file])
        /\ Goes(h, Answered(Logged(handlers[h], db'), 200))

\* replace_primary: update project_files set is_primary = false
ReplaceDemote(h) ==
  /\ At(h, "replace_primary", "demote")
  /\ db' = demotePrimary(db, handlers[h].project)
  /\ Goes(h, [handlers[h] EXCEPT !.pc = "insertFile"])

\* replace_primary: insert into project_files (..., is_primary = true)
ReplaceInsertFile(h) ==
  /\ At(h, "replace_primary", "insertFile")
  /\ IF insertAllowed(db, handlers[h].project, TRUE)
       THEN /\ db' = insertFile(db, handlers[h].project, TRUE)
            /\ Goes(h, [handlers[h] EXCEPT !.pc = "update",
                                           !.file = Len(db.files) + 1])
       ELSE /\ UNCHANGED db
            /\ Goes(h, Answered(handlers[h], 500))

\* replace_primary: update projects set primary_file_id, feasibility_* = null,
\* method_status = 'idle', method_* = null
ReplaceUpdate(h) ==
  /\ At(h, "replace_primary", "update")
  /\ LET project == handlers[h].project
     IN /\ db' = updateProject(db, project,
                   replaced(db.projects[project], handlers[h].file))
        /\ Goes(h, Answered(Logged(handlers[h], db'), 200))

\* add_subpdf: insert into project_files (..., is_primary = false)
AddInsertFile(h) ==
  /\ At(h, "add_subpdf", "insertFile")
  /\ IF insertAllowed(db, handlers[h].project, FALSE)
       THEN /\ db' = insertFile(db, handlers[h].project, FALSE)
            /\ Goes(h, [handlers[h] EXCEPT !.pc = "touch",
                                           !.file = Len(db.files) + 1])
       ELSE /\ UNCHANGED db
            /\ Goes(h, Answered(handlers[h], 500))

\* add_subpdf: update projects set updated_at = now()
AddTouch(h) ==
  /\ At(h, "add_subpdf", "touch")
  /\ UNCHANGED db
  /\ Goes(h, Answered(handlers[h], 200))

\* DELETE: select id, is_primary from project_files where id = ${fileId}
DeleteSelect(h) ==
  /\ At(h, "delete", "select")
  /\ UNCHANGED db
  /\ LET f == handlers[h].file
     IN IF f \notin 1..Len(db.files) \/ db.files[f].deleted
          THEN Goes(h, Answered(handlers[h], 404))
        ELSE IF db.files[f].is_primary
          THEN Goes(h, Answered([handlers[h] EXCEPT !.read = f], 400))
        ELSE Goes(h, [handlers[h] EXCEPT !.pc = "delete"])

\* DELETE: delete from project_files where id = ${fileId}
DeleteDelete(h) ==
  /\ At(h, "delete", "delete")
  /\ db' = [db EXCEPT !.files[handlers[h].file].deleted = TRUE]
  /\ Goes(h, Answered(handlers[h], 200))

\* POST /api/method: update projects set method_status = 'running'
MethodRunning(h) ==
  /\ At(h, "method", "running")
  /\ LET project == handlers[h].project
     IN /\ db' = IF ProjectExists(db, project)
                   THEN updateProject(db, project,
                                      methodRunning(db.projects[project]))
                   ELSE db
        /\ Goes(h, [Logged(handlers[h], db') EXCEPT !.pc = "select"])

\* POST /api/method: select the primary file; none makes the handler throw
MethodSelect(h) ==
  /\ At(h, "method", "select")
  /\ UNCHANGED db
  /\ LET primary == PrimaryFiles(db, handlers[h].project)
     IN IF primary = {}
          THEN Goes(h, [handlers[h] EXCEPT !.pc = "failed", !.error =
                  Some(<<"Primary file extraction is not ready.">>)])
          ELSE \E f \in primary :
                 Goes(h, [handlers[h] EXCEPT !.pc = "synthesis", !.read = f])

\* POST /api/method: runMethodSynthesis settles; its result is saved
MethodSynthesis(h, succeeds) ==
  /\ At(h, "method", "synthesis")
  /\ LET project == handlers[h].project
     IN IF succeeds
          THEN /\ db' = IF ProjectExists(db, project)
                          THEN updateProject(db, project,
                                 methodReady(db.projects[project],
                                             ResultFrom(handlers[h].read)))
                          ELSE db
               /\ Goes(h, Answered(Logged(handlers[h], db'), 200))
          ELSE /\ UNCHANGED db
               /\ Goes(h, [handlers[h] EXCEPT !.pc = "failed", !.error =
                       Some(<<"Method generation failed.">>)])

\* POST /api/method, catch: update projects set method_status = 'failed'
MethodFailed(h) ==
  /\ At(h, "method", "failed")
  /\ LET project == handlers[h].project
     IN /\ db' = IF ProjectExists(db, project)
                   THEN updateProject(db, project,
                          methodFailed(db.projects[project],
                                       Val(handlers[h].error)))
                   ELSE db
        /\ Goes(h, Answered(Logged(handlers[h], db'), 500))

\* POST /api/feasibility: select the primary file
FeasibilitySelect(h) ==
  /\ At(h, "feasibility", "select")
  /\ UNCHANGED db
  /\ LET primary == PrimaryFiles(db, handlers[h].project)
     IN IF primary = {}
          THEN Goes(h, Answered(handlers[h], 404))
          ELSE \E f \in primary :
                 Goes(h, [handlers[h] EXCEPT !.pc = "check", !.read = f])

\* POST /api/feasibility: runFeasibilityCheck settles; its result is saved
FeasibilityCheck(h, succeeds) ==
  /\ At(h, "feasibility", "check")
  /\ LET project == handlers[h].project
     IN IF succeeds
          THEN /\ db' = IF ProjectExists(db, project)
                          THEN updateProject(db, project,
                                 feasibilityDone(db.projects[project],
                                                 ResultFrom(handlers[h].read)))
                          ELSE db
               /\ Goes(h, Answered(Logged(handlers[h], db'), 200))
          ELSE /\ UNCHANGED db
               /\ Goes(h, Answered(handlers[h], 500))

\* one project with its primary file, as create_project leaves it
InitProjects ==
  /\ AgentIdle
  /\ applied = Null
  /\ feasibility = Null /\ sqlEnv = Null
  /\ db = [projects |-> <<ProjectRow(1, Null, Null, "idle", Null, Null)>>,
           files |-> <<FileRow(1, TRUE)>>]
  /\ handlers = <<>>

Steps ==
  \E h \in 1..(MaxRequests + MaxTurns) :
    \/ CreateInsertProject(h)
    \/ CreateInsertFile(h)
    \/ CreateSetPrimary(h)
    \/ ReplaceDemote(h)
    \/ ReplaceInsertFile(h)
    \/ ReplaceUpdate(h)
    \/ AddInsertFile(h)
    \/ AddTouch(h)
    \/ DeleteSelect(h)
    \/ DeleteDelete(h)
    \/ MethodRunning(h)
    \/ MethodSelect(h)
    \/ \E succeeds \in BOOLEAN : MethodSynthesis(h, succeeds)
    \/ MethodFailed(h)
    \/ FeasibilitySelect(h)
    \/ \E succeeds \in BOOLEAN : FeasibilityCheck(h, succeeds)

\* requests served concurrently
NextProjects == (\E request \in Requests : Receive(request)) \/ Steps
SpecProjects == InitProjects /\ [][NextProjects]_vars

\* requests served one after the other
NextInTurn == (\E request \in Requests : ReceiveInTurn(request)) \/ Steps
SpecInTurn == InitProjects /\ [][NextInTurn]_vars

\* no request is being served
Quiescent == \A h \in 1..Len(handlers) : handlers[h].pc = "done"

\* the request served last has been answered
LastAnswered(kind) ==
  /\ Len(handlers) > 0
  /\ Last(handlers).kind = kind
  /\ Last(handlers).pc = "done"

Replaced ==
  { h \in 1..Len(handlers) :
      /\ handlers[h].kind = "replace_primary"
      /\ handlers[h].pc = "done"
      /\ handlers[h].status = 200 }

\* the result was computed from a file that was primary before file f was
\* put in its place (file ids grow with the time of insertion, and only
\* primary files are read)
Stale(json, f) == ~IsNull(json) /\ Val(json).from < f

\* C37 -- After a replace_primary upload has completed, the project's
\* feasibility result and its method result with status 'ready' never come
\* from the previous primary file, whatever feasibility or method request
\* was in flight during the replacement.
C37_ReplaceInvalidates ==
  \A h \in Replaced :
    LET row == db.projects[handlers[h].project]
    IN /\ ~Stale(row.feasibility_result_json, handlers[h].file)
       /\ row.method_status = "ready" =>
            ~Stale(row.method_result_json, handlers[h].file)

\* C38 -- After any sequence and interleaving of create_project,
\* replace_primary, add_subpdf uploads and file DELETE requests, every
\* project has exactly one file with is_primary = true and
\* projects.primary_file_id refers to it; DELETE of a primary file is
\* answered 400 and removes nothing.
C38_SinglePrimary ==
  /\ Quiescent =>
       \A project \in 1..Len(db.projects) :
         \E f \in 1..Len(db.files) :
           /\ PrimaryFiles(db, project) = {f}
           /\ db.projects[project].primary_file_id = f
  /\ \A h \in 1..Len(handlers) :
       (handlers[h].kind = "delete" /\ handlers[h].read # 0) =>
         handlers[h].status = 400

\* ------------------------------------- the language the sandbox is given
LanguageChars == {"P", "Y", "p", "y", "R", "t", " "}

\* the optional language argument of runInE2b: absent, empty, or a string
LanguageInputs ==
  { Application("normalizedLanguage", [language |-> language]) :
      language \in {Null, Some(python3), Some(<<"P">> \o Tail(python))}
                     \cup { Some(l) : l \in UNION { [1..n -> LanguageChars] :
                                                     n \in 0..MaxLangLen } } }

\* runInE2b works out the language it passes to sandbox.runCode
NormalizeLanguage ==
  /\ Pending("normalizedLanguage")
  /\ Done(normalizedLanguage(applied.input.language))

\* the string begins with "py", whatever the case of the two letters
BeginsWithPy(l) == Len(l) >= 2 /\ l[1] \in {"p", "P"} /\ l[2] \in {"y", "Y"}

\* C29 -- The executor treats an absent or empty language as "python", turns
\* every language string that starts with "py" in any letter case into
\* "python", and passes every other string to the sandbox lower-cased and
\* otherwise unchanged.
C29_LanguageNormalized ==
  Applied({"normalizedLanguage"}) =>
    LET language == applied.input.language
        out == Val(applied.output)
    IN IF IsNull(language) \/ Val(language) = <<>> THEN out = python
       ELSE IF BeginsWithPy(Val(language)) THEN out = python
       ELSE /\ Len(out) = Len(Val(language))
            /\ \A k \in 1..Len(out) : out[k] = Lower(Val(language)[k])

\* "PY" has been normalised to "python"
C29_Witness ==
  /\ Applied({"normalizedLanguage"})
  /\ applied.input.language = Some(<<"P", "Y">>)
  /\ Val(applied.output) = python

\* -------------------------------------------- the helpers, one at a time
PureInputs == TruncationInputs \cup ExtractionInputs \cup SuggestionJsonInputs
    \cup AssessmentJsonInputs \cup LanguageInputs

InitPure == Idle /\ applied \in PureInputs

NextPure ==
  \/ BuildPaperContext
  \/ TruncateForJudge
  \/ SnippetForRetry
  \/ ParseSuggestion
  \/ ShapeSuggestion
  \/ ShapeAssessment
  \/ NormalizeLanguage

SpecPure == InitPure /\ [][NextPure]_vars

====
